---------------------------- MODULE Spec2Model ----------------------------
(***************************************************************************)
(* Model of the resumable chunked batch pipeline (batch_scraper.py) and of *)
(* the site scraper (contact_scraper.py).                                  *)
(*                                                                         *)
(* Spec       the batch pipeline: main_menu, load_progress, split_csv,     *)
(*            process_chunks, retry_connection_failures, merge_results.    *)
(* SpecSplit  split_csv alone, for every row count and chunk size.         *)
(* SpecScrape one scrape_website session followed by the row written by    *)
(*            process_spreadsheet or patched by retry_connection_failures. *)
(***************************************************************************)
EXTENDS Integers, Sequences, FiniteSets, TLC

(***************************************************************************)
(* Bounds of the model.                                                    *)
(***************************************************************************)
\* rows of the input table (the source reads any CSV)
MaxRows == 3
\* batch_scraper.py:19 sets CHUNK_SIZE = 50; the model scales it down, so that
\* MaxRows rows make several chunks
CHUNK_SIZE == 1
\* largest number typed at "How many chunks to process?"
MaxNum == 2
\* SpecSplit: largest row count and largest chunk size
MaxSplitRows == 10
MaxSplitSize == 3
\* SpecScrape: how many distinct emails and phones the pages of a site hold
NumEmails == 1
NumPhones == 2

\* rows of the result file of SpecRetry, and passes of the retry over it
MaxRetryRows == 2
MaxPasses == 2
\* SpecResume: the length of the completed_chunks list of the progress file
MaxListLen == 3
\* SpecPhone: the number of digits after the prefix of a phone text
MinBodyLen == 7
MaxBodyLen == 10
\* SpecDedup: the length of the list given to deduplicate_phones
MaxPhoneList == 3
\* SpecCountry: the number of digits after the leading digits of a phone
MaxTailLen == 3
\* SpecPhones, SpecEmails: the links and the lines of a page
MaxLinks == 2
MaxLines == 2
\* SpecLinks: the links of a page
MaxAnchors == 4
\* SpecMerge: the rows of the input, and the digits the chunk number of a
\* file name is padded to (3 in the source, where the names of chunk 1000 and
\* later are longer than the others; scaled with the number of rows)
MaxMergeRows == 11
NAME_WIDTH == 1
\* SpecChunks: the rows of a chunk (CHUNK_SIZE scaled to more than one row)
MaxChunkRows == 2
MaxChunks == (MaxRows + CHUNK_SIZE - 1) \div CHUNK_SIZE

(***************************************************************************)
(* Generic helpers for Python lists and sets.                              *)
(***************************************************************************)
ToSet(s) == {s[i] : i \in 1..Len(s)}

Min(S) == CHOOSE x \in S : \A y \in S : x <= y

RECURSIVE SortedList(_)
\* sorted(list(set(...))) on a set of integers
SortedList(S) ==
    IF S = {} THEN <<>>
    ELSE LET m == Min(S) IN <<m>> \o SortedList(S \ {m})

(***************************************************************************)
(* Row outcomes.                                                           *)
(***************************************************************************)
\* every (emails, phones, website_status, scraping_result) that
\* scrape_website can return, emails and phones abstracted to "non-empty"
scrape_website_returns ==
    \* lines 457 and 492: at least one of the two sets is non-empty
    { [email |-> TRUE, phone |-> TRUE, status |-> "OK", result |-> "Success"],
      [email |-> TRUE, phone |-> FALSE, status |-> "OK", result |-> "Success"],
      [email |-> FALSE, phone |-> TRUE, status |-> "OK", result |-> "Success"],
    \* line 495
      [email |-> FALSE, phone |-> FALSE, status |-> "OK",
       result |-> "No Contacts Found"],
    \* line 509 after find_contact_page_links raised (urljoin ValueError on a
    \* malformed href): the homepage contacts are returned with "Error"
      [email |-> TRUE, phone |-> FALSE, status |-> "Unavailable", result |-> "Error"],
      [email |-> FALSE, phone |-> TRUE, status |-> "Unavailable", result |-> "Error"] }
    \cup
    \* lines 497-509 after a failed homepage request: both sets still empty
    { [email |-> FALSE, phone |-> FALSE, status |-> "Unavailable", result |-> r] :
        r \in {"Timeout", "Connection Failed", "Does Not Exist", "Error"} }

\* the row process_spreadsheet writes for one input row (lines 594-664);
\* deduplicate_phones keeps a non-empty phone list non-empty
ResultRow(in, out) ==
    [id |-> in.id, url |-> in.url, email |-> out.email, phone |-> out.phone,
     status |-> out.status, result |-> out.result]

\* the row of an empty URL with the site reported as reachable
NoUrlRow_StatusOK(in) ==
    [id |-> in.id, url |-> in.url, email |-> FALSE, phone |-> FALSE,
     status |-> "OK", result |-> "No URL"]

\* lines 604-608: empty URL, no scrape
NoUrlRow(in) ==
    [id |-> in.id, url |-> in.url, email |-> FALSE, phone |-> FALSE,
     status |-> "Unavailable", result |-> "No URL"]

\* the outcomes the batch model draws from: one of each class the batch code
\* tells apart (recovered or not, Connection Failed or not, with or
\* without a phone)
BatchOutcomes ==
    { o \in scrape_website_returns :
        \/ o.result \in {"No Contacts Found", "Connection Failed", "Timeout"}
        \/ o.result = "Success" /\ o.email }

\* all result tables process_spreadsheet can build from the rows of a chunk
process_spreadsheet(rows) ==
    { [i \in 1..Len(rows) |->
          IF rows[i].url THEN ResultRow(rows[i], outcome[i]) ELSE NoUrlRow(rows[i])] :
        outcome \in [1..Len(rows) -> BatchOutcomes] }

(***************************************************************************)
(* Files.                                                                  *)
(***************************************************************************)
NoFile == [exists |-> FALSE, ok |-> FALSE, rows |-> <<>>]
\* a file pd.read_csv cannot parse (zero bytes)
Corrupt == [exists |-> TRUE, ok |-> FALSE, rows |-> <<>>]
File(rows) == [exists |-> TRUE, ok |-> TRUE, rows |-> rows]

ZeroStats ==
    [total_processed |-> 0, websites_ok |-> 0, websites_unavailable |-> 0,
     success |-> 0, no_contacts |-> 0, emails_found |-> 0, phones_found |-> 0,
     timeout |-> 0, connection_failed |-> 0, does_not_exist |-> 0, error |-> 0]

\* load_progress lines 68-86: the record used when there is no progress file
FreshProgress ==
    [total_chunks |-> 0, completed_chunks |-> <<>>, stats |-> ZeroStats]

VARIABLES
    input,      \* the input table: [has_column, rows]
    chunks,     \* CHUNKS_DIR: chunk number -> file
    results,    \* RESULTS_DIR: chunk number -> file
    final,      \* FINAL_DIR: the file written by the last merge_results
    pfile,      \* PROGRESS_FILE: [exists, data]
    progress,   \* the progress dict held by main_menu
    pc,         \* position of main_menu
    todo,       \* process_chunks: chunks_to_process
    idx,        \* process_chunks / retry: 1-based position in the loop
    retry_list, \* retry_connection_failures: retry_list
    counters,   \* retry_connection_failures: recovered, still_failed
    last,       \* what the last step did: [op, arg, marked]
    \* split_csv on its own (SpecSplit)
    sp_df,      \* df: the rows read from the input file
    sp_size,    \* the chunk size
    sp_i,       \* the loop variable i
    sp_files,   \* the chunk files written so far, chunk_001 first
    sp_pc,
    \* one row of process_spreadsheet / one item of the retry (SpecScrape)
    url_in,        \* the URL cell of the row: [empty, scheme, host]
    url,           \* scrape_website: url after normalize_url and the fallback
    all_emails,    \* scrape_website: all_emails
    all_phones,    \* scrape_website: all_phones
    pages_checked, \* scrape_website: pages_checked
    contact_pages, \* scrape_website: contact_pages
    cp_i,          \* 1-based position in contact_pages
    log,           \* every HTTP request and every time.sleep, in order
    ret,           \* the tuple scrape_website returned
    row,           \* the output columns of the row
    caller,        \* "process_spreadsheet" or "retry"
    s_pc,
    \* retry_connection_failures on one result file (SpecRetry)
    rt_file,       \* the rows of the result file, as text on disk
    rt_list,       \* retry_list: the row_index of every item
    rt_i,          \* the loop variable i
    rt_pass,       \* passes of retry_connection_failures started
    rt_recovered,  \* the rows patched: [row, pass, cols]
    rt_last,       \* what the last step did: [op, row, before]
    rt_pc,
    \* normalize_phone_to_e164, deduplicate_phones and
    \* detect_country_from_phone on their own (SpecPhone, SpecDedup, SpecCountry)
    ph_x,          \* the argument of the first call
    ph_y,          \* what the calls returned
    ph_n,          \* calls made
    \* calculate_stats_from_results on its own (SpecStats)
    st_results,    \* RESULTS_DIR: chunk number -> file
    st_stats,      \* the stats returned
    st_pc,
    \* the functions that read one page on their own (SpecPhones, SpecEmails,
    \* SpecLinks)
    pg_soup,       \* soup.find_all('a', href=True): the links of the page
    pg_text,       \* the text of the page
    pg_base,       \* base_url
    pg_out,        \* what the call returned
    pg_n           \* calls made

batchvars == <<input, chunks, results, final, pfile, progress, pc, todo, idx,
               retry_list, counters, last>>
splitvars == <<sp_df, sp_size, sp_i, sp_files, sp_pc>>
scrapevars == <<url_in, url, all_emails, all_phones, pages_checked,
                contact_pages, cp_i, log, ret, row, caller, s_pc>>
retryvars == <<rt_file, rt_list, rt_i, rt_pass, rt_recovered, rt_last, rt_pc>>
phonevars == <<ph_x, ph_y, ph_n>>
statsvars == <<st_results, st_stats, st_pc>>
pagevars == <<pg_soup, pg_text, pg_base, pg_out, pg_n>>
nonbatch == <<splitvars, scrapevars, retryvars, phonevars, statsvars, pagevars>>
nonsplit == <<batchvars, scrapevars, retryvars, phonevars, statsvars, pagevars>>
nonscrape == <<batchvars, splitvars, retryvars, phonevars, statsvars, pagevars>>
nonretry == <<batchvars, splitvars, scrapevars, phonevars, statsvars, pagevars>>
nonphone == <<batchvars, splitvars, scrapevars, retryvars, statsvars, pagevars>>
nonstats == <<batchvars, splitvars, scrapevars, retryvars, phonevars, pagevars>>
nonpage == <<batchvars, splitvars, scrapevars, retryvars, phonevars, statsvars>>
vars == <<batchvars, splitvars, scrapevars, retryvars, phonevars, statsvars, pagevars>>

(***************************************************************************)
(* batch_scraper.py                                                        *)
(***************************************************************************)
Count(rows, P(_)) == Cardinality({i \in 1..Len(rows) : P(rows[i])})

\* the body of the loop of calculate_stats_from_results for one readable file
FileStats(rows) ==
    [total_processed |-> Len(rows),
     websites_ok |-> Count(rows, LAMBDA r : r.status = "OK"),
     websites_unavailable |-> Count(rows, LAMBDA r : r.status = "Unavailable"),
     success |-> Count(rows, LAMBDA r : r.result = "Success"),
     no_contacts |-> Count(rows, LAMBDA r : r.result = "No Contacts Found"),
     emails_found |-> Count(rows, LAMBDA r : r.email),
     phones_found |-> Count(rows, LAMBDA r : r.phone),
     timeout |-> Count(rows, LAMBDA r : r.result = "Timeout"),
     connection_failed |-> Count(rows, LAMBDA r : r.result = "Connection Failed"),
     does_not_exist |-> Count(rows, LAMBDA r : r.result = "Does Not Exist"),
     error |-> Count(rows, LAMBDA r : r.result = "Error")]

\* the columns of the DataFrame pd.read_csv returns for the file
Columns(rows) == IF rows = <<>> THEN {"id", "url", "status", "result", "email", "phone"}
                 ELSE DOMAIN rows[1]

\* lines 137-154 for one readable file: the statements run in order, and
\* df[column] raises KeyError at the first column the file lacks; the
\* counters incremented before that keep their increments (line 155)
AggregateFile(rows) ==
    IF "status" \notin Columns(rows)
    THEN [ZeroStats EXCEPT !.total_processed = Len(rows)]
    ELSE IF "result" \notin Columns(rows)
    THEN [ZeroStats EXCEPT
            !.total_processed = Len(rows),
            !.websites_ok = Count(rows, LAMBDA r : r.status = "OK"),
            !.websites_unavailable = Count(rows, LAMBDA r : r.status = "Unavailable")]
    ELSE IF "email" \notin Columns(rows)
    THEN [FileStats([i \in DOMAIN rows |->
                       [email |-> FALSE, phone |-> FALSE, status |-> rows[i].status,
                        result |-> rows[i].result]])
            EXCEPT !.emails_found = 0, !.phones_found = 0]
    ELSE IF "phone" \notin Columns(rows)
    THEN FileStats([i \in DOMAIN rows |->
                      [email |-> rows[i].email, phone |-> FALSE,
                       status |-> rows[i].status, result |-> rows[i].result]])
    ELSE FileStats(rows)

AddStats(a, b) == [k \in DOMAIN a |-> a[k] + b[k]]

RECURSIVE StatsUpTo(_, _)
StatsUpTo(res, n) ==
    IF n = 0 THEN ZeroStats
    ELSE LET f == res[n] IN
         AddStats(StatsUpTo(res, n - 1),
                  \* an unreadable file raises in pd.read_csv and is skipped
                  IF f.exists /\ f.ok THEN AggregateFile(f.rows) ELSE ZeroStats)

calculate_stats_from_results(res) == StatsUpTo(res, MaxChunks)

is_chunk_completed(res, chunk_num) ==
    /\ chunk_num \in DOMAIN res
    /\ res[chunk_num].exists
    /\ res[chunk_num].ok
    /\ Len(res[chunk_num].rows) > 0

\* load_progress without the validation of lines 52-56
load_progress_NoValidation(pf, res) ==
    IF ~pf.exists THEN [progress |-> FreshProgress, pfile |-> pf]
    ELSE [progress |-> [pf.data EXCEPT
                          !.completed_chunks = SortedList(ToSet(pf.data.completed_chunks))],
          pfile |-> pf]

\* load_progress without the set() of lines 47-48
load_progress_NoDedup(pf, res) ==
    IF ~pf.exists THEN [progress |-> FreshProgress, pfile |-> pf]
    ELSE LET validated == SelectSeq(pf.data.completed_chunks,
                                    LAMBDA c : is_chunk_completed(res, c))
         IN IF Len(validated) # Len(pf.data.completed_chunks)
            THEN LET healed == [pf.data EXCEPT !.completed_chunks = validated,
                                               !.stats = calculate_stats_from_results(res)]
                 IN [progress |-> healed, pfile |-> [exists |-> TRUE, data |-> healed]]
            ELSE [progress |-> pf.data, pfile |-> pf]

\* the progress record load_progress returns, and the progress file it leaves
load_progress(pf, res) ==
    IF ~pf.exists THEN [progress |-> FreshProgress, pfile |-> pf]
    ELSE LET dedup == SortedList(ToSet(pf.data.completed_chunks))
             validated == SelectSeq(dedup, LAMBDA c : is_chunk_completed(res, c))
         IN IF Len(validated) # Len(dedup)
            THEN LET healed == [pf.data EXCEPT !.completed_chunks = validated,
                                               !.stats = calculate_stats_from_results(res)]
                 IN [progress |-> healed, pfile |-> [exists |-> TRUE, data |-> healed]]
            ELSE [progress |-> [pf.data EXCEPT !.completed_chunks = dedup],
                  pfile |-> pf]

save_progress(p) == [exists |-> TRUE, data |-> p]

\* split_csv: the number of chunks and the row range [start_idx, end_idx) of
\* chunk i+1, for i in range(num_chunks)
\* the chunk count rounded down instead of up
num_chunks_Floor(total_rows, chunk_size) == total_rows \div chunk_size

num_chunks(total_rows, chunk_size) == (total_rows + chunk_size - 1) \div chunk_size
start_idx(i, chunk_size) == i * chunk_size
end_idx(i, total_rows, chunk_size) ==
    IF (i + 1) * chunk_size < total_rows THEN (i + 1) * chunk_size ELSE total_rows

\* df.iloc[start:end] with 0-based half-open bounds
iloc(rows, start, end) ==
    SubSeq(rows, start + 1, IF end < Len(rows) THEN end ELSE Len(rows))

split_csv(rows) ==
    [c \in 1..MaxChunks |->
        IF c <= num_chunks(Len(rows), CHUNK_SIZE)
        THEN File(iloc(rows, start_idx(c - 1, CHUNK_SIZE),
                       end_idx(c - 1, Len(rows), CHUNK_SIZE)))
        ELSE NoFile]


RECURSIVE SelectFrom(_, _, _, _, _)
\* process_chunks lines 233-238: the scan of range(1, total_chunks + 1) from i
SelectFrom(i, acc, num, p, res) ==
    IF i > p.total_chunks THEN acc
    ELSE IF i \notin ToSet(p.completed_chunks) \/ ~is_chunk_completed(res, i)
         THEN LET acc2 == Append(acc, i)
              IN IF Len(acc2) >= num THEN acc2
                 ELSE SelectFrom(i + 1, acc2, num, p, res)
         ELSE SelectFrom(i + 1, acc, num, p, res)

\* the scan starting at chunk 2: range(2, total_chunks + 1)
chunks_to_process_From2(num, p, res) == SelectFrom(2, <<>>, num, p, res)

chunks_to_process(num, p, res) == SelectFrom(1, <<>>, num, p, res)

\* process_chunks lines 265-271: mark chunk_num and recompute the stats
MarkCompleted(p, chunk_num, res) ==
    [p EXCEPT !.completed_chunks = SortedList(ToSet(p.completed_chunks) \cup {chunk_num}),
              !.stats = calculate_stats_from_results(res)]

\* retry_connection_failures lines 324-337: (file, row_index) of every row
\* with Scraping_Result = Connection Failed, files in sorted order
RECURSIVE RetryListUpTo(_, _)
RetryListUpTo(res, n) ==
    IF n = 0 THEN <<>>
    ELSE LET f == res[n]
             all == [i \in 1..Len(f.rows) |-> [file |-> n, row_index |-> i]]
         IN RetryListUpTo(res, n - 1) \o
            (IF f.exists /\ f.ok
             THEN SelectSeq(all, LAMBDA it : f.rows[it.row_index].result = "Connection Failed")
             ELSE <<>>)

\* retry_connection_failures line 375
IsRecovered(out) == out.result = "Success" \/ out.email \/ out.phone

\* retry_connection_failures lines 379-404 on one row; Phone_Primary is
\* assigned only when phones is non-empty
PatchRow(r, out) ==
    [r EXCEPT !.email = out.email,
                !.phone = IF out.phone THEN TRUE ELSE @,
                !.status = out.status,
                !.result = out.result]

\* the characters of f"{chunk_num:0{w}d}" as code points
RECURSIVE Decimal(_)
Decimal(n) == IF n < 10 THEN <<48 + n>> ELSE Append(Decimal(n \div 10), 48 + (n % 10))

RECURSIVE ZeroPad(_, _)
ZeroPad(digits, w) == IF Len(digits) >= w THEN digits ELSE ZeroPad(<<48>> \o digits, w)

\* process_chunks line 250: the part of f"chunk_{chunk_num:03d}_contacts.csv"
\* in which two result file names differ, up to and including the "_" (95)
\* that follows the number
result_name(chunk_num) == Append(ZeroPad(Decimal(chunk_num), NAME_WIDTH), 95)

\* the order of two paths of one directory: character by character
PathLess(a, b) ==
    \/ \E i \in 1..Len(a) :
         /\ i <= Len(b)
         /\ a[i] < b[i]
         /\ \A j \in 1..(i - 1) : a[j] = b[j]
    \/ Len(a) < Len(b) /\ a = SubSeq(b, 1, Len(a))

\* merge_results line 440: sorted(RESULTS_DIR.glob("chunk_*_contacts.csv")),
\* as the list of the chunk numbers of the files
sorted_result_files(res) ==
    LET files == {c \in DOMAIN res : res[c].exists}
        pos(c) == 1 + Cardinality({d \in files : PathLess(result_name(d), result_name(c))})
    IN [k \in 1..Cardinality(files) |-> CHOOSE c \in files : pos(c) = k]

RECURSIVE concat(_, _)
\* merge_results lines 446-451: pd.concat of the files read in that order
concat(res, order) ==
    IF order = <<>> THEN <<>>
    ELSE res[Head(order)].rows \o concat(res, Tail(order))

(***************************************************************************)
(* contact_scraper.py: lookup tables, phone normalisation, country.        *)
(* A Python string is a sequence of one-character strings; None and the    *)
(* empty string are the empty sequence.                                    *)
(***************************************************************************)
\* one link more than the slice of line 408 keeps
MAX_CONTACT_PAGES_OneMore == 3 + 1

MAX_CONTACT_PAGES == 3

\* lines 21-122, keys as digit sequences
COUNTRY_CODES ==
    <<"3", "3">> :> "FR" @@ <<"3", "2">> :> "BE" @@ <<"4", "1">> :> "CH" @@
    <<"4", "9">> :> "DE" @@ <<"4", "4">> :> "GB" @@ <<"3", "4">> :> "ES" @@
    <<"3", "9">> :> "IT" @@ <<"3", "5", "1">> :> "PT" @@ <<"3", "1">> :> "NL" @@
    <<"4", "3">> :> "AT" @@ <<"4", "5">> :> "DK" @@ <<"4", "6">> :> "SE" @@
    <<"4", "7">> :> "NO" @@ <<"3", "5", "8">> :> "FI" @@ <<"3", "5", "3">> :> "IE" @@
    <<"3", "0">> :> "GR" @@ <<"4", "8">> :> "PL" @@ <<"4", "2", "0">> :> "CZ" @@
    <<"3", "6">> :> "HU" @@ <<"4", "0">> :> "RO" @@ <<"4", "2", "1">> :> "SK" @@
    <<"3", "8", "6">> :> "SI" @@ <<"3", "8", "5">> :> "HR" @@ <<"3", "5", "9">> :> "BG" @@
    <<"3", "7", "0">> :> "LT" @@ <<"3", "7", "1">> :> "LV" @@ <<"3", "7", "2">> :> "EE" @@
    <<"3", "5", "4">> :> "IS" @@ <<"3", "5", "6">> :> "MT" @@ <<"3", "5", "7">> :> "CY" @@
    <<"3", "5", "2">> :> "LU" @@ <<"3", "7", "7">> :> "MC" @@ <<"3", "7", "8">> :> "SM" @@
    <<"4", "2", "3">> :> "LI" @@ <<"3", "7", "6">> :> "AD" @@ <<"3", "8", "2">> :> "ME" @@
    <<"3", "8", "1">> :> "RS" @@ <<"3", "8", "3">> :> "XK" @@ <<"3", "8", "7">> :> "BA" @@
    <<"3", "8", "9">> :> "MK" @@ <<"3", "5", "5">> :> "AL" @@ <<"3", "7", "3">> :> "MD" @@
    <<"3", "8", "0">> :> "UA" @@ <<"3", "7", "5">> :> "BY" @@ <<"7">> :> "RU/KZ" @@
    <<"2", "6", "2">> :> "FR-RE" @@ <<"5", "9", "0">> :> "FR-GP" @@ <<"5", "9", "4">> :> "FR-GF" @@
    <<"5", "9", "6">> :> "FR-MQ" @@ <<"5", "0", "8">> :> "FR-PM" @@ <<"6", "8", "1">> :> "FR-WF" @@
    <<"6", "8", "7">> :> "FR-NC" @@ <<"6", "8", "9">> :> "FR-PF" @@ <<"5", "0", "0">> :> "GB-FK" @@
    <<"3", "5", "0">> :> "GB-GI" @@ <<"2", "9", "0">> :> "GB-SH" @@ <<"2", "4", "7">> :> "GB-AC" @@
    <<"1", "2", "8", "4">> :> "GB-VG" @@ <<"1", "3", "4", "5">> :> "GB-KY" @@ <<"1", "4", "4", "1">> :> "GB-BM" @@
    <<"1", "6", "6", "4">> :> "GB-MS" @@ <<"1", "6", "4", "9">> :> "GB-TC" @@ <<"1", "2", "6", "4">> :> "GB-AI" @@
    <<"2", "9", "7">> :> "NL-AW" @@ <<"5", "9", "9">> :> "NL-CW" @@ <<"5", "9", "9", "9">> :> "NL-CW" @@
    <<"7", "2", "1">> :> "NL-SX" @@ <<"1", "3", "4", "0">> :> "US-VI" @@ <<"1", "6", "7", "0">> :> "US-MP" @@
    <<"1", "6", "7", "1">> :> "US-GU" @@ <<"1", "6", "8", "4">> :> "US-AS" @@ <<"1", "7", "8", "7">> :> "US-PR" @@
    <<"1", "9", "3", "9">> :> "US-PR" @@ <<"2", "9", "9">> :> "DK-GL" @@ <<"2", "9", "8">> :> "DK-FO" @@
    <<"6", "7", "2">> :> "AU-NF" @@ <<"6", "1", "8", "9", "1", "6", "4">> :> "AU-CX" @@ <<"6", "8", "2">> :> "NZ-CK" @@
    <<"6", "8", "3">> :> "NZ-NU" @@ <<"6", "9", "0">> :> "NZ-TK" @@ <<"1">> :> "US/CA" @@
    <<"5", "2">> :> "MX" @@ <<"5", "4">> :> "AR" @@ <<"5", "5">> :> "BR" @@
    <<"5", "6">> :> "CL" @@ <<"5", "7">> :> "CO" @@ <<"5", "1">> :> "PE" @@
    <<"5", "8">> :> "VE" @@ <<"5", "9", "3">> :> "EC" @@ <<"5", "9", "1">> :> "BO" @@
    <<"5", "9", "5">> :> "PY" @@ <<"5", "9", "8">> :> "UY" @@ <<"5", "0", "6">> :> "CR" @@
    <<"5", "0", "7">> :> "PA" @@ <<"5", "3">> :> "CU" @@ <<"5", "0", "9">> :> "HT" @@
    <<"1", "8", "0", "9">> :> "DO" @@ <<"1", "8", "2", "9">> :> "DO" @@ <<"1", "8", "4", "9">> :> "DO" @@
    <<"5", "0", "2">> :> "GT" @@ <<"5", "0", "3">> :> "SV" @@ <<"5", "0", "4">> :> "HN" @@
    <<"5", "0", "5">> :> "NI" @@ <<"5", "0", "1">> :> "BZ" @@ <<"1", "2", "4", "2">> :> "BS" @@
    <<"1", "2", "4", "6">> :> "BB" @@ <<"1", "2", "6", "8">> :> "AG" @@ <<"1", "4", "7", "3">> :> "GD" @@
    <<"1", "7", "5", "8">> :> "LC" @@ <<"1", "7", "6", "7">> :> "DM" @@ <<"1", "7", "8", "4">> :> "VC" @@
    <<"1", "8", "6", "8">> :> "TT" @@ <<"1", "8", "6", "9">> :> "KN" @@ <<"1", "8", "7", "6">> :> "JM" @@
    <<"8", "6">> :> "CN" @@ <<"9", "1">> :> "IN" @@ <<"8", "1">> :> "JP" @@
    <<"8", "2">> :> "KR" @@ <<"8", "8", "6">> :> "TW" @@ <<"8", "5", "2">> :> "HK" @@
    <<"8", "5", "3">> :> "MO" @@ <<"6", "5">> :> "SG" @@ <<"6", "0">> :> "MY" @@
    <<"6", "6">> :> "TH" @@ <<"8", "4">> :> "VN" @@ <<"6", "2">> :> "ID" @@
    <<"6", "3">> :> "PH" @@ <<"9", "5">> :> "MM" @@ <<"8", "5", "5">> :> "KH" @@
    <<"8", "5", "6">> :> "LA" @@ <<"6", "7", "3">> :> "BN" @@ <<"6", "7", "0">> :> "TL" @@
    <<"9", "2">> :> "PK" @@ <<"8", "8", "0">> :> "BD" @@ <<"9", "4">> :> "LK" @@
    <<"9", "7", "7">> :> "NP" @@ <<"9", "7", "5">> :> "BT" @@ <<"9", "6", "0">> :> "MV" @@
    <<"9", "3">> :> "AF" @@ <<"9", "8">> :> "IR" @@ <<"9", "6", "4">> :> "IQ" @@
    <<"9", "6", "2">> :> "JO" @@ <<"9", "6", "1">> :> "LB" @@ <<"9", "6", "3">> :> "SY" @@
    <<"9", "7", "2">> :> "IL" @@ <<"9", "7", "0">> :> "PS" @@ <<"9", "7", "1">> :> "AE" @@
    <<"9", "6", "6">> :> "SA" @@ <<"9", "6", "8">> :> "OM" @@ <<"9", "6", "5">> :> "KW" @@
    <<"9", "7", "3">> :> "BH" @@ <<"9", "7", "4">> :> "QA" @@ <<"9", "6", "7">> :> "YE" @@
    <<"9", "0">> :> "TR" @@ <<"9", "9", "4">> :> "AZ" @@ <<"9", "9", "5">> :> "GE" @@
    <<"3", "7", "4">> :> "AM" @@ <<"9", "9", "2">> :> "TJ" @@ <<"9", "9", "3">> :> "TM" @@
    <<"9", "9", "8">> :> "UZ" @@ <<"9", "9", "6">> :> "KG" @@ <<"2", "0">> :> "EG" @@
    <<"2", "1", "2">> :> "MA" @@ <<"2", "1", "3">> :> "DZ" @@ <<"2", "1", "6">> :> "TN" @@
    <<"2", "1", "8">> :> "LY" @@ <<"2", "4", "9">> :> "SD" @@ <<"2", "7">> :> "ZA" @@
    <<"2", "5", "4">> :> "KE" @@ <<"2", "5", "5">> :> "TZ" @@ <<"2", "5", "6">> :> "UG" @@
    <<"2", "3", "4">> :> "NG" @@ <<"2", "3", "3">> :> "GH" @@ <<"2", "2", "5">> :> "CI" @@
    <<"2", "2", "1">> :> "SN" @@ <<"2", "2", "3">> :> "ML" @@ <<"2", "2", "6">> :> "BF" @@
    <<"2", "2", "7">> :> "NE" @@ <<"2", "2", "8">> :> "TG" @@ <<"2", "2", "9">> :> "BJ" @@
    <<"2", "3", "0">> :> "MU" @@ <<"2", "3", "1">> :> "LR" @@ <<"2", "3", "2">> :> "SL" @@
    <<"2", "3", "5">> :> "TD" @@ <<"2", "3", "6">> :> "CF" @@ <<"2", "3", "7">> :> "CM" @@
    <<"2", "3", "8">> :> "CV" @@ <<"2", "3", "9">> :> "ST" @@ <<"2", "4", "0">> :> "GQ" @@
    <<"2", "4", "1">> :> "GA" @@ <<"2", "4", "2">> :> "CG" @@ <<"2", "4", "3">> :> "CD" @@
    <<"2", "4", "4">> :> "AO" @@ <<"2", "4", "5">> :> "GW" @@ <<"2", "4", "6">> :> "IO" @@
    <<"2", "4", "8">> :> "SC" @@ <<"2", "5", "0">> :> "RW" @@ <<"2", "5", "1">> :> "ET" @@
    <<"2", "5", "2">> :> "SO" @@ <<"2", "5", "3">> :> "DJ" @@ <<"2", "5", "7">> :> "BI" @@
    <<"2", "5", "8">> :> "MZ" @@ <<"2", "6", "0">> :> "ZM" @@ <<"2", "6", "1">> :> "MG" @@
    <<"2", "6", "3">> :> "ZW" @@ <<"2", "6", "4">> :> "NA" @@ <<"2", "6", "5">> :> "MW" @@
    <<"2", "6", "6">> :> "LS" @@ <<"2", "6", "7">> :> "BW" @@ <<"2", "6", "8">> :> "SZ" @@
    <<"2", "6", "9">> :> "KM" @@ <<"6", "1">> :> "AU" @@ <<"6", "4">> :> "NZ" @@
    <<"6", "7", "9">> :> "FJ" @@ <<"6", "7", "5">> :> "PG" @@ <<"6", "7", "6">> :> "TO" @@
    <<"6", "7", "7">> :> "SB" @@ <<"6", "7", "8">> :> "VU" @@ <<"6", "8", "5">> :> "WS" @@
    <<"6", "8", "6">> :> "KI" @@ <<"6", "8", "8">> :> "TV" @@ <<"6", "9", "1">> :> "FM" @@
    <<"6", "9", "2">> :> "MH" @@ <<"6", "8", "0">> :> "PW"

\* lines 150-165 in dict order; '.co.uk' is the label sequence <<"co", "uk">>
tld_map ==
    << [tld |-> <<"fr">>, country |-> "FR"], [tld |-> <<"es">>, country |-> "ES"],
       [tld |-> <<"it">>, country |-> "IT"], [tld |-> <<"de">>, country |-> "DE"],
       [tld |-> <<"pt">>, country |-> "PT"], [tld |-> <<"be">>, country |-> "BE"],
       [tld |-> <<"nl">>, country |-> "NL"], [tld |-> <<"ch">>, country |-> "CH"],
       [tld |-> <<"at">>, country |-> "AT"], [tld |-> <<"lu">>, country |-> "LU"],
       [tld |-> <<"uk">>, country |-> "GB"], [tld |-> <<"co", "uk">>, country |-> "GB"],
       [tld |-> <<"ie">>, country |-> "IE"], [tld |-> <<"se">>, country |-> "SE"],
       [tld |-> <<"no">>, country |-> "NO"], [tld |-> <<"dk">>, country |-> "DK"],
       [tld |-> <<"fi">>, country |-> "FI"], [tld |-> <<"pl">>, country |-> "PL"],
       [tld |-> <<"cz">>, country |-> "CZ"], [tld |-> <<"gr">>, country |-> "GR"],
       [tld |-> <<"ru">>, country |-> "RU"], [tld |-> <<"ua">>, country |-> "UA"],
       [tld |-> <<"ro">>, country |-> "RO"], [tld |-> <<"hu">>, country |-> "HU"],
       [tld |-> <<"hr">>, country |-> "HR"], [tld |-> <<"rs">>, country |-> "RS"],
       [tld |-> <<"bg">>, country |-> "BG"], [tld |-> <<"si">>, country |-> "SI"],
       [tld |-> <<"sk">>, country |-> "SK"], [tld |-> <<"lt">>, country |-> "LT"],
       [tld |-> <<"lv">>, country |-> "LV"], [tld |-> <<"ee">>, country |-> "EE"],
       [tld |-> <<"is">>, country |-> "IS"], [tld |-> <<"tr">>, country |-> "TR"],
       [tld |-> <<"us">>, country |-> "US"], [tld |-> <<"ca">>, country |-> "CA"],
       [tld |-> <<"mx">>, country |-> "MX"], [tld |-> <<"br">>, country |-> "BR"],
       [tld |-> <<"ar">>, country |-> "AR"], [tld |-> <<"cl">>, country |-> "CL"],
       [tld |-> <<"co">>, country |-> "CO"], [tld |-> <<"pe">>, country |-> "PE"],
       [tld |-> <<"ve">>, country |-> "VE"], [tld |-> <<"ec">>, country |-> "EC"],
       [tld |-> <<"cn">>, country |-> "CN"], [tld |-> <<"jp">>, country |-> "JP"],
       [tld |-> <<"kr">>, country |-> "KR"], [tld |-> <<"in">>, country |-> "IN"],
       [tld |-> <<"au">>, country |-> "AU"], [tld |-> <<"nz">>, country |-> "NZ"],
       [tld |-> <<"sg">>, country |-> "SG"], [tld |-> <<"my">>, country |-> "MY"],
       [tld |-> <<"th">>, country |-> "TH"], [tld |-> <<"vn">>, country |-> "VN"],
       [tld |-> <<"id">>, country |-> "ID"], [tld |-> <<"ph">>, country |-> "PH"],
       [tld |-> <<"hk">>, country |-> "HK"], [tld |-> <<"tw">>, country |-> "TW"],
       [tld |-> <<"za">>, country |-> "ZA"], [tld |-> <<"eg">>, country |-> "EG"],
       [tld |-> <<"ma">>, country |-> "MA"], [tld |-> <<"ng">>, country |-> "NG"],
       [tld |-> <<"ke">>, country |-> "KE"], [tld |-> <<"ae">>, country |-> "AE"],
       [tld |-> <<"sa">>, country |-> "SA"], [tld |-> <<"il">>, country |-> "IL"],
       [tld |-> <<"iq">>, country |-> "IQ"], [tld |-> <<"ir">>, country |-> "IR"] >>

Digits == {"0", "1", "2", "3", "4", "5", "6", "7", "8", "9"}
Whitespace == {" "}

None == <<>>

StartsWith(s, prefix) ==
    Len(s) >= Len(prefix) /\ SubSeq(s, 1, Len(prefix)) = prefix

\* s[n:], n >= 0
From(s, n) == SubSeq(s, n + 1, Len(s))

\* s[:n], n >= 0
Prefix(s, n) == SubSeq(s, 1, IF n < Len(s) THEN n ELSE Len(s))

\* re.sub(r'\D', '', s)
DigitsOnly(s) == SelectSeq(s, LAMBDA c : c \in Digits)

RECURSIVE LStrip(_)
LStrip(s) == IF s # <<>> /\ Head(s) \in Whitespace THEN LStrip(Tail(s)) ELSE s

RECURSIVE RStrip(_)
RStrip(s) ==
    IF s # <<>> /\ s[Len(s)] \in Whitespace THEN RStrip(SubSeq(s, 1, Len(s) - 1)) ELSE s

\* str.strip()
Strip(s) == RStrip(LStrip(s))

\* the test without the strip
is_empty_url_NaNOnly(u) == u.isna

\* a URL cell is a record: isna for the missing value pandas reads from an
\* empty cell, pad for the blanks of the text, scheme and host for the rest.
\* process_spreadsheet line 604: pd.isna(url) or str(url).strip() == ''
is_empty_url(u) ==
    \/ u.isna
    \/ Strip(u.pad) = <<>> /\ u.scheme = "" /\ u.host = <<>>

\* the length of a match of [\(\[]\s*0\s*[\)\]] at the start of s, 0 if none
ParenZeroLen(s) ==
    IF s = <<>> \/ Head(s) \notin {"(", "["} THEN 0
    ELSE LET a == LStrip(Tail(s)) IN
         IF a = <<>> \/ Head(a) # "0" THEN 0
         ELSE LET b == LStrip(Tail(a)) IN
              IF b = <<>> \/ Head(b) \notin {")", "]"} THEN 0
              ELSE Len(s) - Len(b) + 1

RECURSIVE RemoveParenZero(_)
\* line 240: re.sub(r'[\(\[]\s*0\s*[\)\]]', '', phone)
RemoveParenZero(s) ==
    IF s = <<>> THEN <<>>
    ELSE LET n == ParenZeroLen(s) IN
         IF n > 0 THEN RemoveParenZero(From(s, n))
         ELSE <<Head(s)>> \o RemoveParenZero(Tail(s))

\* lines 270-276: some prefix of 3, 2 or 1 digits is a known dialing code
HasKnownCode(digits) ==
    \E code_len \in {3, 2, 1} : Prefix(digits, code_len) \in DOMAIN COUNTRY_CODES

\* lines 281-282
Fix330(digits) ==
    IF StartsWith(digits, <<"3", "3", "0">>) /\ Len(digits) = 12
    THEN <<"3", "3">> \o From(digits, 3)
    ELSE digits

\* lines 285-290: re.match(r'^(\d{2,3})0(\d{9})$', digits); the greedy group
\* is 3 digits for 13 digits and 2 digits for 12 digits
FixCodeZero(digits) ==
    LET n == Len(digits) - 10 IN
    IF n \in {2, 3} /\ digits[n + 1] = "0" /\ Prefix(digits, n) \in DOMAIN COUNTRY_CODES
    THEN Prefix(digits, n) \o From(digits, n + 1)
    ELSE digits

\* lines 293-299: the return of a number in international form
WithPlus(digits) == IF Len(digits) >= 10 THEN <<"+">> \o digits ELSE None

\* lines 260-299 on digits; explicit: the phone began with 00 or with +
FromDigits(digits, explicit) ==
    IF Len(digits) < 9 \/ Len(digits) > 15 THEN None
    ELSE IF Head(digits) = "0" /\ Len(digits) = 10 /\ ~explicit THEN digits
    ELSE IF explicit \/ (Len(digits) >= 11 /\ HasKnownCode(digits))
         THEN WithPlus(FixCodeZero(Fix330(digits)))
         ELSE digits

\* lines 243-258 on phone as line 240 left it and on phone.strip()
FromStripped(phone, stripped) ==
    FromDigits(DigitsOnly(IF StartsWith(stripped, <<"0", "0">>)
                          THEN <<"+">> \o From(stripped, 2)
                          ELSE phone),
               StartsWith(stripped, <<"0", "0">>) \/ StartsWith(stripped, <<"+">>))

\* lines 243-299 on phone as line 240 left it
AfterParenZero(phone) == FromStripped(phone, Strip(phone))

normalize_phone_to_e164(phone) ==
    IF phone = <<>> THEN None ELSE AfterParenZero(RemoveParenZero(phone))

\* the last 9 digits of a phone (lines 534-539 and 621-622)
Core(phone) ==
    LET d == DigitsOnly(phone) IN
    IF Len(d) >= 9 THEN SubSeq(d, Len(d) - 8, Len(d)) ELSE d

\* no phone skipped
KeepFirstPerCore_KeepAll(list, seen) == list

RECURSIVE KeepFirstPerCore(_, _)
\* lines 529-545: the phones of list whose core is not in seen, first wins
KeepFirstPerCore(list, seen) ==
    IF list = <<>> THEN <<>>
    ELSE IF Core(Head(list)) \in seen THEN KeepFirstPerCore(Tail(list), seen)
         ELSE <<Head(list)>> \o KeepFirstPerCore(Tail(list), seen \cup {Core(Head(list))})

deduplicate_phones(phone_list) ==
    LET norms == [i \in 1..Len(phone_list) |-> normalize_phone_to_e164(phone_list[i])]
        normalized == SelectSeq(norms, LAMBDA p : p # None)
    IN KeepFirstPerCore(normalized, {})

(***************************************************************************)
(* extract_phones_from_html.  A link is a record [scheme, rest]: the href  *)
(* is scheme followed by rest.  The text is the sequence of its lines      *)
(* (text.split): a line is a record with what the regular expressions find *)
(* in it: coords, the number of decimal numbers with 4 decimals or more;   *)
(* geo_word, a word of line 219; degree, the sign of line 340; matches,    *)
(* the texts re.findall returns for the patterns of lines 328-332.         *)
(***************************************************************************)
PhoneSchemes == {"tel:", "call:", "callto:", "phone:"}

\* lines 306-317: the valid normalised phones of the tel and call links
LinkPhones(soup) ==
    {normalize_phone_to_e164(Strip(soup[i].rest)) :
        i \in {k \in DOMAIN soup : soup[k].scheme \in PhoneSchemes}} \ {None}

\* is_gps_coordinate lines 210-223
is_gps_coordinate(chunk) == chunk.coords >= 2 \/ chunk.geo_word

RECURSIVE DigitRun(_)
\* the number of digits s begins with
DigitRun(s) == IF s # <<>> /\ Head(s) \in Digits THEN 1 + DigitRun(Tail(s)) ELSE 0

\* lines 351-354: re.match(r'\d+\.\d{4,}', match.replace(',', '.'))
LooksDecimal(match) ==
    LET n == DigitRun(match) IN
    /\ n >= 1
    /\ Len(match) >= n + 5
    /\ match[n + 1] \in {".", ","}
    /\ \A i \in (n + 2)..(n + 5) : match[i] \in Digits

\* lines 346-369: the matches of a line that pass the three tests
KeptMatches(chunk) ==
    {chunk.matches[i] : i \in {k \in DOMAIN chunk.matches :
        /\ ~LooksDecimal(chunk.matches[k])
        /\ Len(DigitsOnly(chunk.matches[k])) >= 9
        /\ Strip(chunk.matches[k]) # <<>>
        /\ Head(Strip(chunk.matches[k])) \in {"+", "0"}}}

\* lines 334-369: the valid normalised phones of the lines that are not
\* skipped
TextPhones(text) ==
    {normalize_phone_to_e164(m) :
        m \in UNION {KeptMatches(text[i]) :
                       i \in {k \in DOMAIN text :
                                ~is_gps_coordinate(text[k]) /\ ~text[k].degree}}} \ {None}

\* lines 374 and 377: one digit repeated, or a run of consecutive digits
LooksLikeId(phone) ==
    LET digits == DigitsOnly(phone)
        twice == <<"0", "1", "2", "3", "4", "5", "6", "7", "8", "9", "0", "1", "2", "3", "4", "5", "6", "7", "8", "9">>
    IN \/ Cardinality(ToSet(digits)) = 1
       \/ \E k \in 0..(Len(twice) - Len(digits)) :
             SubSeq(twice, k + 1, k + Len(digits)) = digits

\* the link phones and the text phones together
extract_phones_from_html_Union(soup, text) ==
    LinkPhones(soup) \cup {p \in TextPhones(text) : ~LooksLikeId(p)}

\* lines 301-378; the list returned is in the order of a Python set
extract_phones_from_html(soup, text) ==
    IF LinkPhones(soup) # {} THEN LinkPhones(soup)
    ELSE {p \in TextPhones(text) : ~LooksLikeId(p)}

(***************************************************************************)
(* extract_emails_from_html.  A link is a record [scheme, rest] as above;  *)
(* the text is given by the addresses re.findall returns for email_pattern *)
(* (line 204).                                                             *)
(***************************************************************************)
EmailSchemes == {"mailto:", "goto:", "email:", "e-mail:", "mail:"}

\* str.lower on the letters A-Z
lower_table ==
    "A" :> "a" @@ "B" :> "b" @@ "C" :> "c" @@ "D" :> "d" @@ "E" :> "e" @@ "F" :> "f" @@
    "G" :> "g" @@ "H" :> "h" @@ "I" :> "i" @@ "J" :> "j" @@ "K" :> "k" @@ "L" :> "l" @@
    "M" :> "m" @@ "N" :> "n" @@ "O" :> "o" @@ "P" :> "p" @@ "Q" :> "q" @@ "R" :> "r" @@
    "S" :> "s" @@ "T" :> "t" @@ "U" :> "u" @@ "V" :> "v" @@ "W" :> "w" @@ "X" :> "x" @@
    "Y" :> "y" @@ "Z" :> "z"

\* the text as it is
lower_Keep(str) == str

\* str.lower()
lower(str) ==
    [i \in DOMAIN str |-> IF str[i] \in DOMAIN lower_table THEN lower_table[str[i]] ELSE str[i]]

RECURSIVE BeforeQuestionMark(_)
\* .split('?')[0]
BeforeQuestionMark(str) ==
    IF str = <<>> \/ Head(str) = "?" THEN <<>>
    ELSE <<Head(str)>> \o BeforeQuestionMark(Tail(str))

\* re.sub(r'\s+', '', str)
NoWhitespace(str) == SelectSeq(str, LAMBDA c : c \notin Whitespace)

\* lines 191-198: the address of a link
LinkEmail(link) == NoWhitespace(Strip(BeforeQuestionMark(link.rest)))

\* lines 188-200: the lower-cased addresses of the mailto links that hold
\* an @ and a dot
LinkEmails(soup) ==
    {lower(LinkEmail(soup[i])) :
        i \in {k \in DOMAIN soup :
                 /\ soup[k].scheme \in EmailSchemes
                 /\ "@" \in ToSet(LinkEmail(soup[k]))
                 /\ "." \in ToSet(LinkEmail(soup[k]))}}

\* lines 183-208 on the links and on found, the matches of line 204; the
\* list returned is in the order of a Python set
extract_emails_from_html(soup, found) ==
    LinkEmails(soup) \cup {lower(NoWhitespace(found[i])) : i \in DOMAIN found}

\* only the first digit is looked up
LongestCode_OneDigit(digits, length) ==
    IF Prefix(digits, 1) \in DOMAIN COUNTRY_CODES
    THEN COUNTRY_CODES[Prefix(digits, 1)] ELSE "UNK"

RECURSIVE LongestCode(_, _)
\* lines 133-136: the loop over the lengths, from length down to 1
LongestCode(digits, length) ==
    IF length = 0 THEN "UNK"
    ELSE IF Prefix(digits, length) \in DOMAIN COUNTRY_CODES
         THEN COUNTRY_CODES[Prefix(digits, length)]
         ELSE LongestCode(digits, length - 1)

detect_country_from_phone(phone_e164) ==
    IF phone_e164 = <<>> \/ Head(phone_e164) # "+" THEN "UNK"
    ELSE LongestCode(Tail(phone_e164), 7)

\* urlparse(url).netloc as a sequence of labels: empty unless the URL has
\* a scheme followed by //
netloc(u) == IF u.scheme = "" THEN <<>> ELSE u.host

\* domain.endswith(tld): tld starts with a dot
EndsWithTld(labels, tld) ==
    /\ Len(labels) > Len(tld)
    /\ SubSeq(labels, Len(labels) - Len(tld) + 1, Len(labels)) = tld

\* lines 168-172 on the indices of the matching entries: the first one wins;
\* None is the empty string
FirstMatch(hits) == IF hits = {} THEN "" ELSE tld_map[Min(hits)].country

detect_country_from_domain(u) ==
    IF is_empty_url(u) THEN ""
    ELSE FirstMatch({i \in DOMAIN tld_map : EndsWithTld(netloc(u), tld_map[i].tld)})

\* the insecure scheme as the default
normalize_url_Http(u) ==
    IF u.scheme \in {"http://", "https://"} THEN u ELSE [u EXCEPT !.scheme = "http://"]

\* normalize_url on the scheme of the URL
normalize_url(u) ==
    IF u.scheme \in {"http://", "https://"} THEN u ELSE [u EXCEPT !.scheme = "https://"]

(***************************************************************************)
(* contact_scraper.py: scrape_website and the row of process_spreadsheet.  *)
(***************************************************************************)
EmailPool ==
    LET all == <<"info@example.fr", "sales@example.fr", "hello@example.fr">>
    IN {all[i] : i \in 1..NumEmails}

\* phones as extract_phones_from_html returns them: the first two are the
\* same number in international and in local form
PhonePool ==
    LET all == << <<"+", "3", "3", "4", "7", "9", "0", "5", "9", "5", "2", "2">>,
                  <<"0", "4", "7", "9", "0", "5", "9", "5", "2", "2">>,
                  <<"+", "3", "3", "4", "9", "1", "5", "4", "1", "9", "5", "2">>,
                  <<"0", "1", "2", "3", "4", "5", "6", "7", "8", "9">> >>
    IN {all[i] : i \in 1..NumPhones}

Hosts == { <<"example", "fr">>, <<"example", "com">> }

\* the URL cells of the input: empty, or a host with or without a scheme
UrlInputs ==
    { [isna |-> TRUE, pad |-> <<>>, scheme |-> "", host |-> <<>>],
      [isna |-> FALSE, pad |-> <<" ">>, scheme |-> "", host |-> <<>>] } \cup
    { [isna |-> FALSE, pad |-> <<>>, scheme |-> sch, host |-> h] :
        sch \in {"", "http://", "https://"}, h \in Hosts }

\* what requests.get and raise_for_status can raise
Failures == {"Timeout", "ConnectionError", "HTTPError", "Other"}

\* every failure classified by the last except clause
classify_AllError(f) == "Error"

\* scrape_website lines 497-509: the except clause that catches f
classify(f) ==
    CASE f = "Timeout" -> "Timeout"
      [] f = "ConnectionError" -> "Connection Failed"
      [] f = "HTTPError" -> "Does Not Exist"
      [] OTHER -> "Error"

\* the early stop never taken
early_stop_Never(emails, phones) == FALSE

\* scrape_website lines 455 and 464: all_emails and all_phones
early_stop(emails, phones) == emails # {} /\ phones # {}

NoReturn ==
    [returned |-> FALSE, emails |-> {}, phones |-> {},
     website_status |-> "", scraping_result |-> ""]

Return(emails, phones, website_status, scraping_result) ==
    [returned |-> TRUE, emails |-> emails, phones |-> phones,
     website_status |-> website_status, scraping_result |-> scraping_result]

\* process_spreadsheet lines 583-589
EmptyRow ==
    [Email_Primary |-> "", Email_Additional |-> {}, Country |-> "",
     Phone_Primary |-> <<>>, Phone_Additional |-> {},
     Website_Status |-> "", Scraping_Result |-> ""]

Sleep == [ev |-> "sleep", page |-> "", scheme |-> "", result |-> ""]
Get(page, scheme, result) ==
    [ev |-> "get", page |-> page, scheme |-> scheme, result |-> result]

\* list(a_set): the elements in any order
Lists(S) == {l \in [1..Cardinality(S) -> S] : \A i, j \in DOMAIN l : i # j => l[i] # l[j]}

\* "'" + phone: the marker that protects a leading + in spreadsheets
Protect(phone) == <<"'">> \o phone

\* process_spreadsheet lines 615-628: the second pass over the cores
FinalPhones(phones) == KeepFirstPerCore(SelectSeq(phones, LAMBDA p : p # <<>>), {})

\* lines 650-652 and 657-659: the country of the domain, if it has one
DomainOr(domain_country, country) ==
    IF domain_country # "" THEN domain_country ELSE country

\* lines 643-652 (and batch_scraper.py lines 388-394): the country of the
\* primary phone, and the domain when the phone gives none
PhoneOrDomain(from_phone, u) ==
    IF from_phone = "UNK" THEN DomainOr(detect_country_from_domain(u), "UNK")
    ELSE from_phone

\* process_spreadsheet lines 630-664 on the phones lines 613-628 kept
RowOf(final_phones, u, emails, website_status, scraping_result) ==
    [Email_Primary |-> IF emails # <<>> THEN Head(emails) ELSE "",
     Email_Additional |-> IF Len(emails) > 1 THEN ToSet(Tail(emails)) ELSE {},
     Country |-> IF final_phones # <<>>
                 THEN PhoneOrDomain(detect_country_from_phone(Head(final_phones)), u)
                 ELSE DomainOr(detect_country_from_domain(u), "UNK"),
     Phone_Primary |-> IF final_phones # <<>> THEN Protect(Head(final_phones)) ELSE <<>>,
     Phone_Additional |-> IF Len(final_phones) > 1
                          THEN {Protect(ph) : ph \in ToSet(Tail(final_phones))} ELSE {},
     Website_Status |-> website_status,
     Scraping_Result |-> scraping_result]

\* process_spreadsheet lines 612-664 for the lists emails and phones
WrittenRow(u, emails, phones, website_status, scraping_result) ==
    RowOf(FinalPhones(deduplicate_phones(phones)), u, emails, website_status,
          scraping_result)

\* retry_connection_failures line 375, on the phones line 372 deduplicated
IsRetrySuccess(emails, phones, scraping_result) ==
    scraping_result = "Success" \/ emails # <<>> \/ phones # <<>>

\* retry_connection_failures lines 375-404 on the row old
PatchOf(old, u, emails, phones, website_status, scraping_result) ==
    IF IsRetrySuccess(emails, phones, scraping_result)
    THEN [Email_Primary |-> IF emails # <<>> THEN Head(emails) ELSE "",
          Email_Additional |-> IF Len(emails) > 1 THEN ToSet(Tail(emails)) ELSE {},
          Country |-> IF phones # <<>>
                      THEN PhoneOrDomain(detect_country_from_phone(Head(phones)), u)
                      ELSE "UNK",
          Phone_Primary |-> IF phones # <<>> THEN Protect(Head(phones))
                            ELSE old.Phone_Primary,
          Phone_Additional |-> IF Len(phones) > 1
                               THEN {Protect(ph) : ph \in ToSet(Tail(phones))}
                               ELSE old.Phone_Additional,
          Website_Status |-> website_status,
          Scraping_Result |-> scraping_result]
    ELSE old

\* retry_connection_failures lines 372-404 on the row old
PatchedRow(old, u, emails, phone_list, website_status, scraping_result) ==
    PatchOf(old, u, emails, deduplicate_phones(phone_list), website_status,
            scraping_result)

\* the variables of SpecScrape, unused by the pipeline and by SpecSplit
ScrapeIdle ==
    /\ url_in = [isna |-> TRUE, pad |-> <<>>, scheme |-> "", host |-> <<>>]
    /\ url = url_in
    /\ all_emails = {}
    /\ all_phones = {}
    /\ pages_checked = 0
    /\ contact_pages = <<>>
    /\ cp_i = 0
    /\ log = <<>>
    /\ ret = NoReturn
    /\ row = EmptyRow
    /\ caller = ""
    /\ s_pc = "idle"

\* the variables of SpecRetry, unused by the other specifications
RetryIdle ==
    /\ rt_file = <<>>
    /\ rt_list = <<>>
    /\ rt_i = 0
    /\ rt_pass = 0
    /\ rt_recovered = {}
    /\ rt_last = [op |-> "none", row |-> 0, before |-> <<>>]
    /\ rt_pc = "idle"

\* the variables of SpecPhone, unused by the other specifications
PhoneIdle ==
    /\ ph_x = <<>>
    /\ ph_y = <<>>
    /\ ph_n = 0

\* the variables of SpecStats, unused by the other specifications
StatsIdle ==
    /\ st_results = <<>>
    /\ st_stats = ZeroStats
    /\ st_pc = "idle"

\* the variables of the specifications of one page, unused by the others
PageIdle ==
    /\ pg_soup = <<>>
    /\ pg_text = <<>>
    /\ pg_base = <<>>
    /\ pg_out = <<>>
    /\ pg_n = 0

(***************************************************************************)
(* The batch pipeline as a state machine.                                  *)
(***************************************************************************)
InputRows ==
    UNION {[1..n -> BOOLEAN] : n \in 0..MaxRows}

Idle == [op |-> "none", arg |-> 0, marked |-> FALSE]

\* the variables of SpecSplit, unused by the pipeline
SplitIdle ==
    /\ sp_df = <<>>
    /\ sp_size = 1
    /\ sp_i = 0
    /\ sp_files = <<>>
    /\ sp_pc = "idle"

\* the state of the pipeline before the first run, except for the input
NothingRun ==
    /\ chunks = [c \in 1..MaxChunks |-> NoFile]
    /\ results = [c \in 1..MaxChunks |-> NoFile]
    /\ final = NoFile
    /\ pfile = [exists |-> FALSE, data |-> FreshProgress]
    /\ progress = FreshProgress
    /\ pc = "start"
    /\ todo = <<>>
    /\ idx = 0
    /\ retry_list = <<>>
    /\ counters = [recovered |-> 0, still_failed |-> 0]
    /\ last = Idle

Init ==
    /\ \E has \in BOOLEAN, urls \in InputRows :
         input = [has_column |-> has,
                  rows |-> [i \in DOMAIN urls |-> [id |-> i, url |-> urls[i]]]]
    /\ NothingRun
    /\ SplitIdle
    /\ ScrapeIdle
    /\ RetryIdle
    /\ PhoneIdle
    /\ StatsIdle
    /\ PageIdle

\* main_menu lines 463-494
Setup ==
    /\ pc = "start"
    /\ LET l == load_progress(pfile, results) IN
         IF l.progress.total_chunks = 0
         THEN LET p == [l.progress EXCEPT
                          !.total_chunks = num_chunks(Len(input.rows), CHUNK_SIZE)]
              IN /\ chunks' = split_csv(input.rows)
                 /\ progress' = p
                 /\ pfile' = save_progress(p)
         ELSE /\ progress' = l.progress
              /\ pfile' = l.pfile
              /\ UNCHANGED chunks
    /\ pc' = "loop"
    /\ last' = [op |-> IF load_progress(pfile, results).pfile = pfile
                       THEN "load" ELSE "heal",
                arg |-> 0, marked |-> FALSE]
    /\ UNCHANGED <<input, results, final, todo, idx, retry_list, counters>>
    /\ UNCHANGED nonbatch

\* main_menu lines 498-500
LoopTop ==
    /\ pc = "loop"
    /\ LET l == load_progress(pfile, results)
           p == [l.progress EXCEPT !.stats = calculate_stats_from_results(results)]
       IN /\ progress' = p
          /\ pfile' = save_progress(p)
          /\ last' = [op |-> IF l.pfile = pfile THEN "load" ELSE "heal",
                      arg |-> 0, marked |-> FALSE]
    /\ pc' = "menu"
    \* the merged file is a timestamped one-time output that the program
    \* never reads: the model keeps it until the next menu iteration
    /\ final' = NoFile
    /\ retry_list' = <<>>
    /\ counters' = [recovered |-> 0, still_failed |-> 0]
    /\ UNCHANGED <<input, chunks, results, todo, idx>>
    /\ UNCHANGED nonbatch

\* main_menu choice "1": process_chunks lines 229-246
Choice1 ==
    /\ pc = "menu"
    /\ \E num \in -1..MaxNum :
         LET sel == chunks_to_process(num, progress, results) IN
         /\ todo' = sel
         /\ idx' = IF sel = <<>> THEN 0 ELSE 1
         /\ pc' = IF sel = <<>> THEN "loop" ELSE "processing"
         /\ last' = [op |-> "select", arg |-> num, marked |-> FALSE]
    /\ UNCHANGED <<input, chunks, results, final, pfile, progress, retry_list, counters>>
    /\ UNCHANGED nonbatch

\* the end of one iteration of the loop of process_chunks (line 248)
NextChunk ==
    IF idx < Len(todo)
    THEN /\ idx' = idx + 1
         /\ pc' = "processing"
         /\ UNCHANGED todo
    ELSE /\ idx' = 0
         /\ pc' = "loop"
         /\ UNCHANGED todo

\* process_chunks lines 255-274: process_spreadsheet wrote the result file
ChunkWritten ==
    /\ pc = "processing"
    /\ input.has_column
    /\ chunks[todo[idx]].exists
    /\ \E t \in process_spreadsheet(chunks[todo[idx]].rows) :
         LET res == [results EXCEPT ![todo[idx]] = File(t)]
             p == MarkCompleted(progress, todo[idx], res)
         IN /\ results' = res
            /\ progress' = p
            \* save_progress may raise (OSError): line 276 catches it
            /\ \E saved \in BOOLEAN :
                 /\ pfile' = IF saved THEN save_progress(p) ELSE pfile
                 /\ last' = [op |-> IF saved THEN "written" ELSE "save_failed",
                             arg |-> todo[idx], marked |-> TRUE]
    /\ NextChunk
    /\ UNCHANGED <<input, chunks, final, retry_list, counters>>
    /\ UNCHANGED nonbatch

\* process_chunks lines 255-274 when process_spreadsheet returned at line
\* 572 (chunk unreadable), 580 (no URL column) or 685 (save error):
\* nothing was written, and the chunk is marked all the same
ChunkNotWritten ==
    /\ pc = "processing"
    /\ LET p == MarkCompleted(progress, todo[idx], results) IN
         /\ progress' = p
         /\ pfile' = save_progress(p)
    /\ last' = [op |-> "not_written", arg |-> todo[idx], marked |-> TRUE]
    /\ NextChunk
    /\ UNCHANGED <<input, chunks, results, final, retry_list, counters>>
    /\ UNCHANGED nonbatch

\* process_chunks lines 276-278: process_spreadsheet raised
ChunkRaised ==
    /\ pc = "processing"
    /\ last' = [op |-> "raised", arg |-> todo[idx], marked |-> FALSE]
    /\ NextChunk
    /\ UNCHANGED <<input, chunks, results, final, pfile, progress, retry_list, counters>>
    /\ UNCHANGED nonbatch

\* the process is interrupted (KeyboardInterrupt is not an Exception, or the
\* process is killed) while a chunk is processed: while the result file is
\* being written, or after it was written and before save_progress
Interrupted ==
    /\ pc = "processing"
    /\ input.has_column
    /\ chunks[todo[idx]].exists
    /\ \E f \in {Corrupt, File(<<>>)}
              \cup {File(t) : t \in process_spreadsheet(chunks[todo[idx]].rows)} :
         results' = [results EXCEPT ![todo[idx]] = f]
    /\ pc' = "start"
    /\ todo' = <<>>
    /\ idx' = 0
    /\ progress' = FreshProgress
    /\ last' = [op |-> "interrupted", arg |-> todo[idx], marked |-> FALSE]
    /\ UNCHANGED <<input, chunks, final, pfile, retry_list, counters>>
    /\ UNCHANGED nonbatch

\* main_menu choice "2": merge_results line 436 and
\* retry_connection_failures lines 317-356 (the scan and the y/n prompt)
Choice2 ==
    /\ pc = "menu"
    /\ \E yes \in BOOLEAN :
         LET found == RetryListUpTo(results, MaxChunks)
             list == IF yes THEN found ELSE <<>>
         IN /\ retry_list' = list
            /\ idx' = IF list = <<>> THEN 0 ELSE 1
            /\ pc' = IF list = <<>> THEN "merge" ELSE "retry"
    /\ counters' = [recovered |-> 0, still_failed |-> 0]
    /\ last' = [op |-> "scan", arg |-> 0, marked |-> FALSE]
    /\ UNCHANGED <<input, chunks, results, final, pfile, progress, todo>>
    /\ UNCHANGED nonbatch

\* batch_scraper.py imports (lines 6-12) do not bind the name time: the
\* call time.sleep(2) of line 416 raises NameError, caught at line 418
sleep_raises == TRUE

\* one iteration of the loop of retry_connection_failures (lines 361-421)
RetryItem ==
    /\ pc = "retry"
    /\ \E out \in BatchOutcomes :
         LET item == retry_list[idx]
             f == results[item.file]
             more == idx < Len(retry_list)
             extra == IF more /\ sleep_raises THEN 1 ELSE 0
         IN IF IsRecovered(out)
            THEN /\ results' = [results EXCEPT ![item.file] =
                       File([f.rows EXCEPT ![item.row_index] = PatchRow(@, out)])]
                 /\ counters' = [recovered |-> counters.recovered + 1,
                                 still_failed |-> counters.still_failed + extra]
                 /\ last' = [op |-> "patched", arg |-> item.file, marked |-> FALSE]
            ELSE /\ UNCHANGED results
                 /\ counters' = [recovered |-> counters.recovered,
                                 still_failed |-> counters.still_failed + 1 + extra]
                 /\ last' = [op |-> "still_failed", arg |-> item.file, marked |-> FALSE]
    /\ IF idx < Len(retry_list)
       THEN /\ idx' = idx + 1
            /\ pc' = "retry"
       ELSE /\ idx' = 0
            /\ pc' = "merge"
    /\ UNCHANGED <<input, chunks, final, pfile, progress, todo, retry_list>>
    /\ UNCHANGED nonbatch

\* merge_results lines 438-459; pd.read_csv raises on an unreadable file and
\* main_menu line 531 catches it
Merge ==
    /\ pc = "merge"
    /\ LET files == {c \in DOMAIN results : results[c].exists}
           readable == \A c \in files : results[c].ok
       IN IF files # {} /\ readable
          THEN /\ final' = File(concat(results, sorted_result_files(results)))
               /\ last' = [op |-> "merged", arg |-> 0, marked |-> FALSE]
          ELSE /\ UNCHANGED final
               /\ last' = [op |-> "not_merged", arg |-> 0, marked |-> FALSE]
    /\ pc' = "loop"
    /\ UNCHANGED <<input, chunks, results, pfile, progress, todo, idx,
                   retry_list, counters>>
    /\ UNCHANGED nonbatch

\* main_menu choice "3"; the program can be started again later
Choice3 ==
    /\ pc = "menu"
    /\ pc' = "start"
    /\ progress' = FreshProgress
    /\ last' = [op |-> "exit", arg |-> 0, marked |-> FALSE]
    /\ UNCHANGED <<input, chunks, results, final, pfile, todo, idx,
                   retry_list, counters>>
    /\ UNCHANGED nonbatch

Next ==
    \/ Setup
    \/ LoopTop
    \/ Choice1
    \/ ChunkRaised
    \/ ChunkWritten
    \/ ChunkNotWritten
    \/ Interrupted
    \/ Choice2
    \/ RetryItem
    \/ Merge
    \/ Choice3

Spec == Init /\ [][Next]_vars

(***************************************************************************)
(* SpecResume: the pipeline started again on the directories of an earlier *)
(* run, whose progress file lists chunk numbers in any order and with      *)
(* repetitions (the lists lines 46-48 of load_progress are written for).   *)
(***************************************************************************)
ResumeLists == UNION {[1..n -> 1..MaxChunks] : n \in 0..MaxListLen}

ResumeInit ==
    /\ input = [has_column |-> TRUE,
                rows |-> [i \in 1..MaxRows |-> [id |-> i, url |-> TRUE]]]
    /\ chunks = split_csv(input.rows)
    \* the result files of the earlier run: every row scraped with success
    /\ \E done \in SUBSET (1..MaxChunks) :
         results = [c \in 1..MaxChunks |->
                      IF c \in done
                      THEN File([i \in DOMAIN chunks[c].rows |->
                                   ResultRow(chunks[c].rows[i],
                                             [email |-> TRUE, phone |-> FALSE,
                                              status |-> "OK", result |-> "Success"])])
                      ELSE NoFile]
    /\ final = NoFile
    /\ \E l \in ResumeLists :
         pfile = [exists |-> TRUE,
                  data |-> [total_chunks |-> MaxChunks, completed_chunks |-> l,
                            stats |-> calculate_stats_from_results(results)]]
    /\ progress = FreshProgress
    /\ pc = "start"
    /\ todo = <<>>
    /\ idx = 0
    /\ retry_list = <<>>
    /\ counters = [recovered |-> 0, still_failed |-> 0]
    /\ last = Idle
    /\ SplitIdle
    /\ ScrapeIdle
    /\ RetryIdle
    /\ PhoneIdle
    /\ StatsIdle
    /\ PageIdle

SpecResume == ResumeInit /\ [][Next]_vars

TypeOK ==
    /\ pc \in {"start", "loop", "menu", "processing", "retry", "merge"}
    /\ progress.total_chunks \in 0..MaxChunks
    /\ pfile.data.total_chunks \in 0..MaxChunks
    /\ ToSet(progress.completed_chunks) \subseteq 1..MaxChunks
    /\ idx \in 0..(MaxRows + 1)

(***************************************************************************)
(* SpecMerge: merge_results after every chunk of the input was processed   *)
(* and the scan for Connection Failed rows found none.                     *)
(***************************************************************************)
\* outcomes of rows that scan passes over: one with and one without contacts
MergeOutcomes ==
    {o \in BatchOutcomes : o.result \in {"Success", "No Contacts Found"} /\ ~o.phone}

MergeInit ==
    /\ \E R \in 1..MaxMergeRows :
         \E outs \in [1..R -> MergeOutcomes] :
           LET rows == [i \in 1..R |-> [id |-> i, url |-> TRUE]]
               n == num_chunks(R, CHUNK_SIZE)
               part(c) == iloc(rows, start_idx(c - 1, CHUNK_SIZE),
                               end_idx(c - 1, R, CHUNK_SIZE))
               res == [c \in 1..n |->
                         File([i \in 1..Len(part(c)) |->
                                 ResultRow(part(c)[i], outs[part(c)[i].id])])]
               p == [total_chunks |-> n, completed_chunks |-> [c \in 1..n |-> c],
                     stats |-> StatsUpTo(res, n)]
           IN /\ input = [has_column |-> TRUE, rows |-> rows]
              /\ chunks = [c \in 1..n |-> File(part(c))]
              /\ results = res
              /\ pfile = [exists |-> TRUE, data |-> p]
              /\ progress = p
    /\ final = NoFile
    /\ pc = "merge"
    /\ todo = <<>>
    /\ idx = 0
    /\ retry_list = <<>>
    /\ counters = [recovered |-> 0, still_failed |-> 0]
    /\ last = [op |-> "scan", arg |-> 0, marked |-> FALSE]
    /\ SplitIdle
    /\ ScrapeIdle
    /\ RetryIdle
    /\ PhoneIdle
    /\ StatsIdle
    /\ PageIdle

MergeNext == Merge

SpecMerge == MergeInit /\ [][MergeNext]_vars

(***************************************************************************)
(* SpecChunks: the pipeline started on directories an earlier run left     *)
(* after it split an input of at most MaxChunkRows rows into one chunk and *)
(* exited.                                                                 *)
(***************************************************************************)
ChunksInit ==
    /\ \E urls \in InputRows :
         LET rows == [i \in DOMAIN urls |-> [id |-> i, url |-> urls[i]]]
             R == Len(rows)
             n == num_chunks(R, MaxChunkRows)
             p == [FreshProgress EXCEPT !.total_chunks = n]
         IN /\ R \in 1..MaxChunkRows
            /\ input = [has_column |-> TRUE, rows |-> rows]
            /\ chunks = [c \in 1..MaxChunks |->
                           IF c <= n
                           THEN File(iloc(rows, start_idx(c - 1, MaxChunkRows),
                                          end_idx(c - 1, R, MaxChunkRows)))
                           ELSE NoFile]
            /\ pfile = save_progress(p)
    /\ results = [c \in 1..MaxChunks |-> NoFile]
    /\ final = NoFile
    /\ progress = FreshProgress
    /\ pc = "start"
    /\ todo = <<>>
    /\ idx = 0
    /\ retry_list = <<>>
    /\ counters = [recovered |-> 0, still_failed |-> 0]
    /\ last = Idle
    /\ SplitIdle
    /\ ScrapeIdle
    /\ RetryIdle
    /\ PhoneIdle
    /\ StatsIdle
    /\ PageIdle

\* the process is killed while df.to_csv (line 679) writes the result file
\* of a chunk of several rows, after some of the rows reached the file and
\* before the others did
InterruptedInWrite ==
    /\ pc = "processing"
    /\ input.has_column
    /\ chunks[todo[idx]].exists
    /\ \E t \in process_spreadsheet(chunks[todo[idx]].rows) :
         \E k \in 1..(Len(t) - 1) :
           results' = [results EXCEPT ![todo[idx]] = File(SubSeq(t, 1, k))]
    /\ pc' = "start"
    /\ todo' = <<>>
    /\ idx' = 0
    /\ progress' = FreshProgress
    /\ last' = [op |-> "interrupted", arg |-> todo[idx], marked |-> FALSE]
    /\ UNCHANGED <<input, chunks, final, pfile, retry_list, counters>>
    /\ UNCHANGED nonbatch

ChunksNext ==
    \/ Next
    \/ InterruptedInWrite

SpecChunks == ChunksInit /\ [][ChunksNext]_vars

(***************************************************************************)
(* SpecProgress: the started-again pipeline when the user asks again and   *)
(* again for one chunk or more, process_spreadsheet writes the result file *)
(* of every chunk it is given and the progress file can be written.        *)
(***************************************************************************)
\* main_menu line 513 with an answer of 1 or more
ProcessSome == Choice1 /\ last'.arg >= 1

\* process_chunks lines 255-274 went through: result file and progress file
\* were written
ChunkSaved == ChunkWritten /\ last'.op = "written"

ProgressNext ==
    \/ Setup
    \/ LoopTop
    \/ ProcessSome
    \/ ChunkSaved

\* the menu loop and process_chunks are sequential code: a step that can be
\* taken is taken
SpecProgress == ResumeInit /\ [][ProgressNext]_vars /\ WF_vars(ProgressNext)

(***************************************************************************)
(* SpecSplit: split_csv for every row count and chunk size.                *)
(***************************************************************************)
BatchIdle ==
    /\ input = [has_column |-> TRUE, rows |-> <<>>]
    /\ NothingRun

SplitInit ==
    /\ \E R \in 0..MaxSplitRows : sp_df = [k \in 1..R |-> k - 1]
    /\ sp_size \in 1..MaxSplitSize
    /\ sp_i = 0
    /\ sp_files = <<>>
    /\ sp_pc = "loop"
    /\ BatchIdle
    /\ ScrapeIdle
    /\ RetryIdle
    /\ PhoneIdle
    /\ StatsIdle
    /\ PageIdle

\* split_csv lines 106-112: one iteration of the loop
SplitWrite ==
    /\ sp_pc = "loop"
    /\ sp_i < num_chunks(Len(sp_df), sp_size)
    /\ sp_files' = Append(sp_files,
                          iloc(sp_df, start_idx(sp_i, sp_size),
                               end_idx(sp_i, Len(sp_df), sp_size)))
    /\ sp_i' = sp_i + 1
    /\ UNCHANGED <<sp_df, sp_size, sp_pc>>
    /\ UNCHANGED nonsplit

\* split_csv lines 114-115
SplitReturn ==
    /\ sp_pc = "loop"
    /\ sp_i >= num_chunks(Len(sp_df), sp_size)
    /\ sp_pc' = "done"
    /\ UNCHANGED <<sp_df, sp_size, sp_i, sp_files>>
    /\ UNCHANGED nonsplit

SplitNext ==
    \/ SplitWrite
    \/ SplitReturn

SpecSplit == SplitInit /\ [][SplitNext]_vars

(***************************************************************************)
(* SpecScrape: one row of process_spreadsheet, or one item of the retry    *)
(* list, from the call of scrape_website to the row written.               *)
(***************************************************************************)
ScrapeInit ==
    /\ url_in \in UrlInputs
    /\ caller \in {"process_spreadsheet", "retry"}
    \* a row of the retry list holds a URL: it was scraped before
    /\ caller = "retry" => ~is_empty_url(url_in)
    /\ url = url_in
    /\ all_emails = {}
    /\ all_phones = {}
    /\ pages_checked = 0
    /\ contact_pages = <<>>
    /\ cp_i = 0
    /\ log = <<>>
    /\ ret = NoReturn
    \* the row of the retry list is the one written for Connection Failed
    /\ row = IF caller = "retry"
             THEN WrittenRow(url_in, <<>>, <<>>, "Unavailable", "Connection Failed")
             ELSE EmptyRow
    /\ s_pc = "row"
    /\ BatchIdle
    /\ SplitIdle
    /\ RetryIdle
    /\ PhoneIdle
    /\ StatsIdle
    /\ PageIdle

\* process_spreadsheet lines 604-608
SkipEmptyUrl ==
    /\ s_pc = "row"
    /\ is_empty_url(url_in)
    /\ row' = [row EXCEPT !.Website_Status = "Unavailable", !.Scraping_Result = "No URL"]
    /\ s_pc' = "written"
    /\ UNCHANGED <<url_in, url, all_emails, all_phones, pages_checked,
                   contact_pages, cp_i, log, ret, caller>>
    /\ UNCHANGED nonscrape

\* scrape_website lines 412-419
CallScrape ==
    /\ s_pc = "row"
    /\ ~is_empty_url(url_in)
    /\ url' = normalize_url(url_in)
    /\ s_pc' = "get_home"
    /\ UNCHANGED <<url_in, all_emails, all_phones, pages_checked,
                   contact_pages, cp_i, log, ret, row, caller>>
    /\ UNCHANGED nonscrape

\* scrape_website lines 442-457: the homepage was fetched and is parsed
ParseHomepage(emails, phones) ==
    /\ all_emails' = emails
    /\ all_phones' = phones
    /\ pages_checked' = 1
    /\ IF early_stop(emails, phones)
       THEN /\ ret' = Return(emails, phones, "OK", "Success")
            /\ s_pc' = "returned"
       ELSE /\ ret' = ret
            /\ s_pc' = "discover"

\* scrape_website lines 428-439: the first request
GetHomepage ==
    /\ s_pc = "get_home"
    /\ \/ \E emails \in SUBSET EmailPool, phones \in SUBSET PhonePool :
            /\ log' = Append(log, Get("home", url.scheme, "ok"))
            /\ ParseHomepage(emails, phones)
            /\ UNCHANGED url
       \/ \E f \in Failures :
            /\ log' = Append(log, Get("home", url.scheme, f))
            /\ IF url.scheme = "https://"
               THEN /\ url' = [url EXCEPT !.scheme = "http://"]
                    /\ s_pc' = "fallback"
                    /\ ret' = ret
               ELSE /\ ret' = Return(all_emails, all_phones, "Unavailable", classify(f))
                    /\ s_pc' = "returned"
                    /\ UNCHANGED url
            /\ UNCHANGED <<all_emails, all_phones, pages_checked>>
    /\ UNCHANGED <<url_in, contact_pages, cp_i, row, caller>>
    /\ UNCHANGED nonscrape

\* scrape_website lines 433-437: the request of the http fallback
GetFallback ==
    /\ s_pc = "fallback"
    /\ \/ \E emails \in SUBSET EmailPool, phones \in SUBSET PhonePool :
            /\ log' = Append(log, Get("home", url.scheme, "ok"))
            /\ ParseHomepage(emails, phones)
       \/ \E f \in Failures :
            /\ log' = Append(log, Get("home", url.scheme, f))
            /\ ret' = Return(all_emails, all_phones, "Unavailable", classify(f))
            /\ s_pc' = "returned"
            /\ UNCHANGED <<all_emails, all_phones, pages_checked>>
    /\ UNCHANGED <<url_in, url, contact_pages, cp_i, row, caller>>
    /\ UNCHANGED nonscrape

\* scrape_website line 460: find_contact_page_links returns at most
\* MAX_CONTACT_PAGES links, or raises (urljoin raises ValueError on an href
\* such as "//[contact") and line 507 catches it
Discover ==
    /\ s_pc = "discover"
    /\ \/ \E n \in 0..MAX_CONTACT_PAGES :
            /\ contact_pages' = [k \in 1..n |-> k]
            /\ cp_i' = 1
            /\ s_pc' = "contact"
            /\ ret' = ret
       \/ /\ ret' = Return(all_emails, all_phones, "Unavailable", "Error")
          /\ s_pc' = "returned"
          /\ UNCHANGED <<contact_pages, cp_i>>
    /\ UNCHANGED <<url_in, url, all_emails, all_phones, pages_checked, log, row, caller>>
    /\ UNCHANGED nonscrape

\* scrape_website lines 462-487: one iteration of the loop that fetches
FetchContact ==
    /\ s_pc = "contact"
    /\ cp_i <= Len(contact_pages)
    /\ ~early_stop(all_emails, all_phones)
    /\ \/ \E emails \in SUBSET EmailPool, phones \in SUBSET PhonePool :
            /\ log' = log \o <<Sleep, Get("contact", "", "ok")>>
            /\ all_emails' = all_emails \cup emails
            /\ all_phones' = all_phones \cup phones
            /\ pages_checked' = pages_checked + 1
       \/ \E f \in Failures :
            \* line 486: except Exception: continue
            /\ log' = log \o <<Sleep, Get("contact", "", f)>>
            /\ UNCHANGED <<all_emails, all_phones, pages_checked>>
    /\ cp_i' = cp_i + 1
    /\ UNCHANGED <<url_in, url, contact_pages, ret, row, caller, s_pc>>
    /\ UNCHANGED nonscrape

\* scrape_website lines 462-465 and 489-495: the loop ends, classification
Finish ==
    /\ s_pc = "contact"
    /\ cp_i > Len(contact_pages) \/ early_stop(all_emails, all_phones)
    /\ ret' = IF all_emails # {} \/ all_phones # {}
              THEN Return(all_emails, all_phones, "OK", "Success")
              ELSE Return({}, {}, "OK", "No Contacts Found")
    /\ s_pc' = "returned"
    /\ UNCHANGED <<url_in, url, all_emails, all_phones, pages_checked,
                   contact_pages, cp_i, log, row, caller>>
    /\ UNCHANGED nonscrape

\* process_spreadsheet lines 610-664
WriteRow ==
    /\ s_pc = "returned"
    /\ caller = "process_spreadsheet"
    /\ \E emails \in Lists(ret.emails), phones \in Lists(ret.phones) :
         row' = WrittenRow(url_in, emails, phones, ret.website_status, ret.scraping_result)
    /\ s_pc' = "written"
    /\ UNCHANGED <<url_in, url, all_emails, all_phones, pages_checked,
                   contact_pages, cp_i, log, ret, caller>>
    /\ UNCHANGED nonscrape

\* retry_connection_failures lines 366-412
RetryPatch ==
    /\ s_pc = "returned"
    /\ caller = "retry"
    /\ \E emails \in Lists(ret.emails), phones \in Lists(ret.phones) :
         /\ row' = PatchedRow(row, url_in, emails, phones,
                               ret.website_status, ret.scraping_result)
         /\ s_pc' = IF IsRetrySuccess(emails, deduplicate_phones(phones),
                                      ret.scraping_result)
                    THEN "patched" ELSE "kept"
    /\ UNCHANGED <<url_in, url, all_emails, all_phones, pages_checked,
                   contact_pages, cp_i, log, ret, caller>>
    /\ UNCHANGED nonscrape

ScrapeNext ==
    \/ SkipEmptyUrl
    \/ CallScrape
    \/ GetHomepage
    \/ GetFallback
    \/ Discover
    \/ FetchContact
    \/ Finish
    \/ WriteRow
    \/ RetryPatch

SpecScrape == ScrapeInit /\ [][ScrapeNext]_vars

\* the steps of scrape_website
SessionStep ==
    \/ GetHomepage
    \/ GetFallback
    \/ Discover
    \/ FetchContact
    \/ Finish

\* scrape_website is sequential code whose requests carry a timeout: a step
\* of the session that can be taken is taken
SpecScrapeFair == ScrapeInit /\ [][ScrapeNext]_vars /\ WF_vars(SessionStep)

\* every return of the session is one the batch model knows
ReturnsAreKnown ==
    ret.returned =>
        [email |-> ret.emails # {}, phone |-> ret.phones # {},
         status |-> ret.website_status, result |-> ret.scraping_result]
            \in scrape_website_returns

(***************************************************************************)
(* SpecRetry: retry_connection_failures over one result file, pass after   *)
(* pass, with the file read by pd.read_csv and written by df.to_csv.       *)
(***************************************************************************)
\* a missing value of a DataFrame
NaN == "NaN (float)"

\* pd.read_csv (keep_default_na): of the default na_values, the texts the
\* cells of a result file can hold: the empty cell and the ISO code NA
\* (Namibia, COUNTRY_CODES['264'])
na_values == {"", "NA"}

\* pd.read_csv (lines 326 and 376) on the text columns of the rows
read_csv(rows) ==
    [i \in DOMAIN rows |->
        [rows[i] EXCEPT !.cols.Country = IF @ \in na_values THEN NaN ELSE @,
                        !.cols.Email_Primary = IF @ \in na_values THEN NaN ELSE @]]

\* df.to_csv (line 407): na_rep is the empty string
to_csv(df) ==
    [i \in DOMAIN df |->
        [df[i] EXCEPT !.cols.Country = IF @ = NaN THEN "" ELSE @,
                      !.cols.Email_Primary = IF @ = NaN THEN "" ELSE @]]

\* what scrape_website returns for the sites of SpecRetry: still failing,
\* a phone of Namibia (+264), an email only, a page without contacts
RetryReturns ==
    { Return(<<>>, <<>>, "Unavailable", "Connection Failed"),
      Return(<<>>, << <<"+", "2", "6", "4", "6", "1", "2", "3", "4", "5", "6", "7">> >>,
             "OK", "Success"),
      Return(<<"info@example.fr">>, <<>>, "OK", "Success"),
      Return(<<>>, <<>>, "OK", "No Contacts Found") }

\* the WEBSITE cell of the rows of SpecRetry
RetryUrl == [isna |-> FALSE, pad |-> <<>>, scheme |-> "https://", host |-> <<"example", "com">>]

\* the rows process_spreadsheet wrote (lines 610-664 and 677-685)
RetryRows ==
    { [u |-> RetryUrl,
       cols |-> WrittenRow(RetryUrl, o.emails, o.phones, o.website_status,
                           o.scraping_result)] : o \in RetryReturns }

\* lines 326-334: the row_index of the rows to retry, in file order
ConnectionFailures(df) ==
    SelectSeq([i \in DOMAIN df |-> i],
              LAMBDA i : df[i].cols.Scraping_Result = "Connection Failed")

RetryInit ==
    /\ rt_file \in UNION {[1..n -> RetryRows] : n \in 0..MaxRetryRows}
    /\ rt_list = <<>>
    /\ rt_i = 0
    /\ rt_pass = 0
    /\ rt_recovered = {}
    /\ rt_last = [op |-> "none", row |-> 0, before |-> <<>>]
    /\ rt_pc = "scan"
    /\ BatchIdle
    /\ SplitIdle
    /\ ScrapeIdle
    /\ PhoneIdle
    /\ StatsIdle
    /\ PageIdle

\* retry_connection_failures lines 317-356: the scan and the y/n prompt
RetryScan ==
    /\ rt_pc = "scan"
    /\ rt_pass < MaxPasses
    /\ rt_pass' = rt_pass + 1
    /\ \E yes \in BOOLEAN :
         /\ rt_list' = IF yes THEN ConnectionFailures(read_csv(rt_file)) ELSE <<>>
         /\ rt_last' = [op |-> IF yes THEN "scan" ELSE "declined", row |-> 0,
                        before |-> rt_file]
    /\ rt_i' = 1
    /\ rt_pc' = "retry"
    /\ UNCHANGED <<rt_file, rt_recovered>>
    /\ UNCHANGED nonretry

\* one iteration of the loop of retry_connection_failures (lines 361-421)
RetryOne ==
    /\ rt_pc = "retry"
    /\ rt_i <= Len(rt_list)
    /\ \E o \in RetryReturns :
         IF IsRetrySuccess(o.emails, deduplicate_phones(o.phones), o.scraping_result)
         THEN /\ rt_file' = to_csv([read_csv(rt_file) EXCEPT ![rt_list[rt_i]].cols =
                               PatchedRow(@, RetryUrl, o.emails, o.phones,
                                          o.website_status, o.scraping_result)])
              /\ rt_last' = [op |-> "patched", row |-> rt_list[rt_i], before |-> rt_file]
              /\ rt_recovered' = rt_recovered \cup
                     {[row |-> rt_list[rt_i], pass |-> rt_pass, cols |-> rt_file'[rt_list[rt_i]].cols]}
         ELSE /\ rt_last' = [op |-> "kept", row |-> rt_list[rt_i], before |-> rt_file]
              /\ UNCHANGED <<rt_file, rt_recovered>>
    /\ rt_i' = rt_i + 1
    /\ UNCHANGED <<rt_list, rt_pass, rt_pc>>
    /\ UNCHANGED nonretry

\* lines 423-430: the pass is over, main_menu shows the menu again
RetryReturn ==
    /\ rt_pc = "retry"
    /\ rt_i > Len(rt_list)
    /\ rt_pc' = "scan"
    /\ rt_last' = [op |-> "returned", row |-> 0, before |-> rt_file]
    \* the rows this pass recovered, as the pass leaves them on disk
    /\ rt_recovered' = {IF r.pass = rt_pass
                         THEN [r EXCEPT !.cols = rt_file[r.row].cols] ELSE r :
                        r \in rt_recovered}
    /\ UNCHANGED <<rt_file, rt_list, rt_i, rt_pass>>
    /\ UNCHANGED nonretry

RetryNext ==
    \/ RetryScan
    \/ RetryOne
    \/ RetryReturn

SpecRetry == RetryInit /\ [][RetryNext]_vars

(***************************************************************************)
(* SpecStats: calculate_stats_from_results for every content of the        *)
(* results directory.                                                      *)
(***************************************************************************)
\* the files chunk_*_contacts.csv can be: absent, unreadable, without a data
\* row, written by process_spreadsheet, or a table that lacks result columns
\* (a file that process_spreadsheet did not write)
StatFiles ==
    {NoFile, Corrupt, File(<<>>)}
    \cup {File(t) : t \in process_spreadsheet(<< [id |-> 1, url |-> TRUE] >>)}
    \cup {File(<< [id |-> 1, url |-> TRUE] >>),
          File(<< [id |-> 1, url |-> TRUE, status |-> "OK"] >>)}

StatsInit ==
    /\ st_results \in [1..MaxChunks -> StatFiles]
    /\ st_stats = ZeroStats
    /\ st_pc = "call"
    /\ BatchIdle
    /\ SplitIdle
    /\ ScrapeIdle
    /\ RetryIdle
    /\ PhoneIdle
    /\ PageIdle

\* calculate_stats_from_results lines 117-159
Recompute ==
    /\ st_pc = "call"
    /\ st_stats' = calculate_stats_from_results(st_results)
    /\ st_pc' = "returned"
    /\ UNCHANGED st_results
    /\ UNCHANGED nonstats

StatsNext ==
    \/ Recompute

SpecStats == StatsInit /\ [][StatsNext]_vars

(***************************************************************************)
(* SpecPhone: normalize_phone_to_e164 applied to a phone text, then to its *)
(* own result.                                                             *)
(***************************************************************************)
\* how a phone text starts: nothing, the international indicators, a (0), a
\* country code, a country code and the trunk 0, a separated 0
PhonePrefixes ==
    { <<>>, <<"+">>, <<"0", "0">>, <<"0", "-", "0">>, <<"(", "0", ")">>,
      <<"+", "3", "3", "(", "0", ")">>, <<"+", "3", "3", "0">>, <<"3", "3">>,
      <<"+", "3", "5", "1", "0">>, <<"+", "3", "3", " ">> }

BodyDigits == {"0", "4"}

PhoneInputs ==
    { pre \o body : pre \in PhonePrefixes,
                    body \in UNION {[1..n -> BodyDigits] : n \in MinBodyLen..MaxBodyLen} }

PhoneInit ==
    /\ ph_x \in PhoneInputs
    /\ ph_y = <<>>
    /\ ph_n = 0
    /\ BatchIdle
    /\ SplitIdle
    /\ ScrapeIdle
    /\ RetryIdle
    /\ StatsIdle
    /\ PageIdle

\* one call of normalize_phone_to_e164 (lines 225-299): on the text, then on
\* the result of the call before
Normalize ==
    /\ ph_n < 2
    /\ ph_y' = Append(ph_y, normalize_phone_to_e164(IF ph_n = 0 THEN ph_x ELSE ph_y[ph_n]))
    /\ ph_n' = ph_n + 1
    /\ UNCHANGED ph_x
    /\ UNCHANGED nonphone

PhoneNext ==
    \/ Normalize

SpecPhone == PhoneInit /\ [][PhoneNext]_vars

(***************************************************************************)
(* SpecDedup: deduplicate_phones applied to a list of phone texts.  ph_x   *)
(* is the list, ph_y the list returned.                                    *)
(***************************************************************************)
\* phone texts as extract_phones_from_html finds them: one number written in
\* four ways, a second number in two ways, a text too short to be a phone
DedupTexts ==
    { <<"+", "3", "3", "4", "7", "9", "0", "5", "9", "5", "2", "2">>,
      <<"0", "4", "7", "9", "0", "5", "9", "5", "2", "2">>,
      <<"0", "0", "3", "3", "4", "7", "9", "0", "5", "9", "5", "2", "2">>,
      <<"+", "3", "3", " ", "(", "0", ")", "4", "7", "9", "0", "5", "9", "5", "2", "2">>,
      <<"+", "3", "3", "4", "9", "1", "5", "4", "1", "9", "5", "2">>,
      <<"0", "4", "9", "1", "5", "4", "1", "9", "5", "2">>,
      <<"1", "2", "3", "4", "5">> }

DedupInit ==
    /\ ph_x \in UNION {[1..n -> DedupTexts] : n \in 0..MaxPhoneList}
    /\ ph_y = <<>>
    /\ ph_n = 0
    /\ BatchIdle
    /\ SplitIdle
    /\ ScrapeIdle
    /\ RetryIdle
    /\ StatsIdle
    /\ PageIdle

\* deduplicate_phones lines 511-547
Deduplicate ==
    /\ ph_n = 0
    /\ ph_y' = deduplicate_phones(ph_x)
    /\ ph_n' = 1
    /\ UNCHANGED ph_x
    /\ UNCHANGED nonphone

DedupNext ==
    \/ Deduplicate

SpecDedup == DedupInit /\ [][DedupNext]_vars

(***************************************************************************)
(* SpecCountry: detect_country_from_phone applied to a phone.  ph_x is the *)
(* phone, ph_y holds the value returned.                                   *)
(***************************************************************************)
\* leading digits: dialing codes of 1, 2, 3, 4 and 7 digits, codes that are
\* prefixes of longer codes, and digits that begin no code
LeadingDigits ==
    { <<>>, <<"1">>, <<"7">>, <<"3", "3">>, <<"6", "1">>, <<"3", "5", "1">>,
      <<"1", "2", "8", "4">>, <<"1", "2", "8">>, <<"5", "9", "9", "9">>,
      <<"6", "1", "8", "9", "1", "6", "4">>, <<"6", "1", "8", "9", "1", "6">>,
      <<"0">>, <<"8", "0", "0">> }

CountryInputs ==
    { plus \o lead \o rest :
        plus \in {<<>>, <<"+">>}, lead \in LeadingDigits,
        rest \in UNION {[1..n -> {"0", "9"}] : n \in 0..MaxTailLen} }

CountryInit ==
    /\ ph_x \in CountryInputs
    /\ ph_y = <<>>
    /\ ph_n = 0
    /\ BatchIdle
    /\ SplitIdle
    /\ ScrapeIdle
    /\ RetryIdle
    /\ StatsIdle
    /\ PageIdle

\* detect_country_from_phone lines 124-138
DetectCountry ==
    /\ ph_n = 0
    /\ ph_y' = <<detect_country_from_phone(ph_x)>>
    /\ ph_n' = 1
    /\ UNCHANGED ph_x
    /\ UNCHANGED nonphone

CountryNext ==
    \/ DetectCountry

SpecCountry == CountryInit /\ [][CountryNext]_vars

(***************************************************************************)
(* SpecPhones: extract_phones_from_html applied to a page.                 *)
(***************************************************************************)
\* tel links with a number in international form, in local form, with
\* blanks, with too few digits; a callto link; a link that is no phone link
PhoneLinks ==
    { [scheme |-> "tel:", rest |-> <<"+", "3", "3", "4", "9", "1", "5", "4", "1", "9", "5", "2">>],
      [scheme |-> "tel:", rest |-> <<" ", "0", "4", " ", "7", "9", " ", "0", "5", " ", "9", "5", " ", "2", "2">>],
      [scheme |-> "tel:", rest |-> <<"1", "2", "3", "4", "5">>],
      [scheme |-> "callto:", rest |-> <<"0", "0", "3", "3", "4", "7", "9", "0", "5", "9", "5", "2", "2">>],
      [scheme |-> "https://", rest |-> <<"0", "4", "7", "9", "0", "5", "9", "5", "2", "2">>] }

\* lines of text: a GPS pair next to digits the patterns match, a phone in
\* local form, a phone in international form next to a run of digits, a
\* phone after the word GPS, the decimals of a coordinate
PhoneLines ==
    { [coords |-> 2, geo_word |-> FALSE, degree |-> FALSE,
       matches |-> << <<"0", "6", " ", "0", "5", " ", "3", "7", " ", "8", "0", " ", "5", "4">> >>],
      [coords |-> 0, geo_word |-> FALSE, degree |-> FALSE,
       matches |-> << <<"0", "4", " ", "9", "1", " ", "5", "4", " ", "1", "9", " ", "5", "2">> >>],
      [coords |-> 0, geo_word |-> FALSE, degree |-> FALSE,
       matches |-> << <<"+", "3", "3", " ", "4", " ", "9", "1", " ", "5", "4", " ", "1", "9", " ", "5", "2">>,
                      <<"0", "1", "2", "3", "4", "5", "6", "7", "8", "9">> >>],
      [coords |-> 0, geo_word |-> TRUE, degree |-> FALSE,
       matches |-> << <<"0", "4", "9", "1", "5", "4", "1", "9", "5", "2">> >>],
      [coords |-> 1, geo_word |-> FALSE, degree |-> FALSE,
       matches |-> << <<"0", "5", ".", "3", "7", "8", "0", "5", "4", "1", "2">> >>] }

PhonesInit ==
    /\ pg_soup \in UNION {[1..n -> PhoneLinks] : n \in 0..MaxLinks}
    /\ pg_text \in UNION {[1..n -> PhoneLines] : n \in 0..MaxLines}
    /\ pg_base = <<>>
    /\ pg_out = <<>>
    /\ pg_n = 0
    /\ BatchIdle
    /\ SplitIdle
    /\ ScrapeIdle
    /\ RetryIdle
    /\ PhoneIdle
    /\ StatsIdle

\* extract_phones_from_html lines 301-378; scanned: line 324 was passed
ExtractPhones ==
    /\ pg_n = 0
    /\ pg_out' = [ret |-> extract_phones_from_html(pg_soup, pg_text),
                  scanned |-> LinkPhones(pg_soup) = {}]
    /\ pg_n' = 1
    /\ UNCHANGED <<pg_soup, pg_text, pg_base>>
    /\ UNCHANGED nonpage

PhonesNext ==
    \/ ExtractPhones

SpecPhones == PhonesInit /\ [][PhonesNext]_vars

(***************************************************************************)
(* SpecEmails: extract_emails_from_html applied to a page.  pg_text holds  *)
(* the addresses found in the text.                                        *)
(***************************************************************************)
\* mailto links with capitals and a query, in lower case, with blanks,
\* without an address; a link that is no mail link
EmailLinks ==
    { [scheme |-> "mailto:", rest |-> <<"I", "n", "f", "o", "@", "E", "x", "a", "m", "p", "l", "e", ".", "f", "r", "?", "s", "u", "b", "j", "e", "c", "t", "=", "x">>],
      [scheme |-> "mailto:", rest |-> <<"i", "n", "f", "o", "@", "e", "x", "a", "m", "p", "l", "e", ".", "f", "r">>],
      [scheme |-> "mail:", rest |-> <<" ", "S", "a", "l", "e", "s", "@", "E", "x", "a", "m", "p", "l", "e", ".", "f", "r", " ">>],
      [scheme |-> "mailto:", rest |-> <<"n", "o", "b", "o", "d", "y">>],
      [scheme |-> "tel:", rest |-> <<"i", "n", "f", "o", "@", "e", "x", "a", "m", "p", "l", "e", ".", "f", "r">>] }

\* addresses of the text: two of the links in other cases, one more
FoundEmails ==
    { <<"I", "N", "F", "O", "@", "E", "X", "A", "M", "P", "L", "E", ".", "F", "R">>,
      <<"i", "n", "f", "o", "@", "e", "x", "a", "m", "p", "l", "e", ".", "f", "r">>,
      <<"S", "a", "l", "e", "s", "@", "e", "x", "a", "m", "p", "l", "e", ".", "f", "r">>,
      <<"h", "e", "l", "l", "o", "@", "e", "x", "a", "m", "p", "l", "e", ".", "f", "r">> }

EmailsInit ==
    /\ pg_soup \in UNION {[1..n -> EmailLinks] : n \in 0..MaxLinks}
    /\ pg_text \in UNION {[1..n -> FoundEmails] : n \in 0..MaxLines}
    /\ pg_base = <<>>
    /\ pg_out = <<>>
    /\ pg_n = 0
    /\ BatchIdle
    /\ SplitIdle
    /\ ScrapeIdle
    /\ RetryIdle
    /\ PhoneIdle
    /\ StatsIdle

\* extract_emails_from_html lines 183-208
ExtractEmails ==
    /\ pg_n = 0
    /\ pg_out' = [ret |-> extract_emails_from_html(pg_soup, pg_text)]
    /\ pg_n' = 1
    /\ UNCHANGED <<pg_soup, pg_text, pg_base>>
    /\ UNCHANGED nonpage

EmailsNext ==
    \/ ExtractEmails

SpecEmails == EmailsInit /\ [][EmailsNext]_vars

(***************************************************************************)
(* find_contact_page_links and SpecLinks.  A link is a record [kind,       *)
(* scheme, host, path, text]: kind tells the form of the href (a path, a   *)
(* full URL, a mailto address, a text urljoin cannot parse), path and text *)
(* are words; a URL is a record [scheme, host, path].                      *)
(***************************************************************************)
\* lines 382-387, as words
contact_keywords ==
    {"contact", "nous-contacter", "contactez", "contactez-nous", "about", "a-propos",
     "qui-sommes-nous", "mentions-legales", "mentions", "legal", "impressum", "privacy",
     "politique", "confidentialite"}

\* lines 397-398: a keyword is in the href or in the text of the link
HasKeyword(link) == link.path \in contact_keywords \/ link.text \in contact_keywords

\* urljoin(base_url, link['href']) where it returns
urljoin(base, link) ==
    CASE link.kind = "path" -> [scheme |-> base.scheme, host |-> base.host, path |-> link.path]
      [] link.kind = "url" -> [scheme |-> link.scheme, host |-> link.host, path |-> link.path]
      [] link.kind = "mailto" -> [scheme |-> "mailto:", host |-> <<>>, path |-> link.path]

\* lines 392-405: contact_urls, in the order of the links
contact_urls(soup, base) ==
    LET joined == [i \in DOMAIN soup |-> IF HasKeyword(soup[i]) THEN urljoin(base, soup[i])
                                          ELSE [scheme |-> "", host |-> <<>>, path |-> ""]]
    IN SelectSeq(joined, LAMBDA u : u.scheme # "" /\ u.host = base.host)

\* line 408 without the set(): the first links
Limited_NoSet(urls) ==
    {SubSeq(urls, 1, Min({Len(urls), MAX_CONTACT_PAGES}))}

\* line 408: list(set(contact_urls))[:MAX_CONTACT_PAGES], for every order
\* the set can be listed in
Limited(urls) ==
    {SubSeq(l, 1, Min({Len(l), MAX_CONTACT_PAGES})) : l \in Lists(ToSet(urls))}

\* find_contact_page_links lines 380-408: the lists it can return; it raises
\* when urljoin raises on a link with a keyword
find_contact_page_links(soup, base) ==
    IF \E i \in DOMAIN soup : HasKeyword(soup[i]) /\ soup[i].kind = "malformed"
    THEN {[raised |-> TRUE, ret |-> <<>>]}
    ELSE {[raised |-> FALSE, ret |-> l] : l \in Limited(contact_urls(soup, base))}

\* links to three pages of the site by path, to a page by its text, to a
\* page without keyword, to another site, to a page of the site by its full
\* URL, to a mail address, and a href that urljoin rejects
Anchors ==
    { [kind |-> "path", scheme |-> "", host |-> <<>>, path |-> "contact", text |-> ""],
      [kind |-> "path", scheme |-> "", host |-> <<>>, path |-> "about", text |-> ""],
      [kind |-> "path", scheme |-> "", host |-> <<>>, path |-> "legal", text |-> ""],
      [kind |-> "path", scheme |-> "", host |-> <<>>, path |-> "equipe", text |-> "contact"],
      [kind |-> "path", scheme |-> "", host |-> <<>>, path |-> "produits", text |-> "produits"],
      [kind |-> "url", scheme |-> "https://", host |-> <<"other", "com">>,
       path |-> "contact", text |-> ""],
      [kind |-> "url", scheme |-> "https://", host |-> <<"example", "fr">>,
       path |-> "contact", text |-> ""],
      [kind |-> "mailto", scheme |-> "mailto:", host |-> <<>>,
       path |-> "contact", text |-> "contact"],
      [kind |-> "malformed", scheme |-> "", host |-> <<>>, path |-> "contact", text |-> ""] }

LinksInit ==
    /\ pg_soup \in UNION {[1..n -> Anchors] : n \in 0..MaxAnchors}
    /\ pg_text = <<>>
    /\ pg_base = [scheme |-> "https://", host |-> <<"example", "fr">>, path |-> ""]
    /\ pg_out = <<>>
    /\ pg_n = 0
    /\ BatchIdle
    /\ SplitIdle
    /\ ScrapeIdle
    /\ RetryIdle
    /\ PhoneIdle
    /\ StatsIdle

\* find_contact_page_links lines 380-408
FindLinks ==
    /\ pg_n = 0
    /\ pg_out' \in find_contact_page_links(pg_soup, pg_base)
    /\ pg_n' = 1
    /\ UNCHANGED <<pg_soup, pg_text, pg_base>>
    /\ UNCHANGED nonpage

LinksNext ==
    \/ FindLinks

SpecLinks == LinksInit /\ [][LinksNext]_vars

(***************************************************************************)
(* Properties of the batch pipeline (Spec).                                *)
(***************************************************************************)
Persisted == ToSet(pfile.data.completed_chunks)

\* C1: every chunk number in the persisted completed_chunks has a result
\* file that exists and holds at least one data row, in every reachable
\* state.  Violated: process_chunks marks a chunk for which
\* process_spreadsheet returned without writing.
C1_CompletedHaveArtifacts ==
    \A c \in Persisted : is_chunk_completed(results, c)

\* C2: after load_progress returned, no chunk without a verified result file
\* is left in completed_chunks, and when an ID was dropped the progress file
\* holds the healed list and the stats recomputed from the result files.
C2_LoadDropsUnverified ==
    /\ last.op \in {"load", "heal"} =>
         \A c \in ToSet(progress.completed_chunks) : is_chunk_completed(results, c)
    /\ last.op = "heal" =>
         /\ pfile.exists
         /\ pfile.data.completed_chunks = progress.completed_chunks
         /\ pfile.data.stats = calculate_stats_from_results(results)

\* a load at program start has dropped a stale chunk number
C2_Witness ==
    /\ last.op = "heal"
    /\ pc = "loop"
    /\ \E c \in 1..progress.total_chunks : c \notin ToSet(progress.completed_chunks)

\* the first num chunks of 1..total_chunks that are not verified complete
FirstUnverified(num) ==
    LET U == {c \in 1..progress.total_chunks : ~is_chunk_completed(results, c)}
        k == IF num < Cardinality(U) THEN num ELSE Cardinality(U)
    IN SubSeq(SortedList(U), 1, k)

\* C3: process_chunks(N), N >= 1, selects exactly the lowest-numbered chunks
\* that are not verified complete, in ascending order, up to N of them.
\* Violated: a chunk with a verified result file that is not listed in
\* completed_chunks is selected again.
C3_SelectsOnlyUnverified ==
    (last.op = "select" /\ last.arg >= 1) => todo = FirstUnverified(last.arg)

\* the chunks of the current run that come before chunk k in chunks_to_process
AttemptedBefore(k) ==
    {todo[i] : i \in {i \in 1..Len(todo) : \E m \in 1..Len(todo) : todo[m] = k /\ i < m}}

\* C4 as stated: whenever chunk k is added to completed_chunks every chunk
\* j < k is verified complete.  Violated: chunk 1 raises, chunk 2 of the same
\* run is marked.
C4_CompletedInOrder ==
    last.marked => \A j \in 1..(last.arg - 1) : is_chunk_completed(results, j)

\* C4 amended: whenever chunk k is added to completed_chunks every chunk
\* j < k is verified complete or was attempted earlier in the same run.
C4_AttemptedInOrder ==
    last.marked =>
        \A j \in 1..(last.arg - 1) :
            is_chunk_completed(results, j) \/ j \in AttemptedBefore(last.arg)

\* chunk 2 was written and marked although chunk 1 of the same run failed
C4_Witness ==
    /\ last.op = "written"
    /\ last.arg = 2
    /\ ~is_chunk_completed(results, 1)
    /\ todo = <<1, 2>>

\* C5: after a chunk was processed and marked, after a self-healing load and
\* after a retry patch, the stats of the progress record equal
\* calculate_stats_from_results on the current result files.  Violated:
\* retry_connection_failures and merge_results never recompute the stats.
C5_StatsNeverStale ==
    last.op \in {"written", "not_written", "heal", "patched"} =>
        pfile.data.stats = calculate_stats_from_results(results)

(***************************************************************************)
(* Properties of split_csv (SpecSplit).                                    *)
(***************************************************************************)
\* ceil(R / C) as the least k with k * C >= R
Ceil(R, C) == CHOOSE k \in 0..R : k * C >= R /\ \A m \in 0..(k - 1) : m * C < R

RECURSIVE Flatten(_)
Flatten(ss) == IF ss = <<>> THEN <<>> ELSE Head(ss) \o Flatten(Tail(ss))

\* C6: split_csv on R rows with chunk size C writes ceil(R/C) chunks, chunk i
\* holding the rows [(i-1)*C, min(i*C, R)): contiguous, pairwise disjoint,
\* non-empty, at most C rows each, together all of [0, R).
C6_SplitCoversRows ==
    sp_pc = "done" =>
        LET R == Len(sp_df)
            C == sp_size
            n == Len(sp_files)
            hi(i) == IF i * C < R THEN i * C ELSE R
        IN /\ n = Ceil(R, C)
           /\ \A i \in 1..n :
                /\ sp_files[i] = [j \in 1..(hi(i) - (i - 1) * C) |-> (i - 1) * C + j - 1]
                /\ Len(sp_files[i]) >= 1
                /\ Len(sp_files[i]) <= C
           /\ \A i, j \in 1..n : i # j => ToSet(sp_files[i]) \cap ToSet(sp_files[j]) = {}
           /\ Flatten(sp_files) = sp_df
           /\ UNION {ToSet(sp_files[i]) : i \in 1..n} = 0..(R - 1)

\* a split whose last chunk is shorter than the chunk size
C6_Witness ==
    /\ sp_pc = "done"
    /\ Len(sp_files) >= 2
    /\ Len(sp_files[Len(sp_files)]) < sp_size

(***************************************************************************)
(* Properties of scrape_website and of the row written (SpecScrape).       *)
(***************************************************************************)
\* C7: Scraping_Result = Success exactly when an email or a phone is present,
\* for every return of scrape_website and every row written or patched.
\* Violated: find_contact_page_links raises after the homepage gave an
\* email, and line 509 returns the email with Unavailable / Error.
C7_SuccessIffContacts ==
    /\ ret.returned =>
         (ret.scraping_result = "Success" <=> (ret.emails # {} \/ ret.phones # {}))
    /\ s_pc \in {"written", "patched"} =>
         (row.Scraping_Result = "Success" <=>
            (row.Email_Primary # "" \/ row.Phone_Primary # <<>>))

\* C8: once all_emails and all_phones are both non-empty no further request
\* (and no delay) happens for the site, and the session returns OK / Success.
C8_EarlyStop ==
    [][(all_emails # {} /\ all_phones # {}) =>
          /\ log' = log
          /\ ret'.returned =>
               ret'.website_status = "OK" /\ ret'.scraping_result = "Success"]_vars

\* the early stop was taken in the loop with a contact page left unfetched
C8_Witness ==
    /\ s_pc = "returned"
    /\ all_emails # {}
    /\ all_phones # {}
    /\ cp_i > 1
    /\ cp_i <= Len(contact_pages)
    /\ ret.scraping_result = "Success"

\* the failure class the spec gives to each transport-level failure
ExpectedClass(f) ==
    CASE f = "Timeout" -> "Timeout"
      [] f = "ConnectionError" -> "Connection Failed"
      [] f = "HTTPError" -> "Does Not Exist"
      [] f = "Other" -> "Error"

\* log[i] is a page fetch that failed for good: a failed https request of
\* the homepage is followed by the http fallback and is not one
FailedFetch(i) ==
    /\ log[i].ev = "get"
    /\ log[i].result \in Failures
    /\ ~(log[i].page = "home" /\ log[i].scheme = "https://")

\* C9 as stated: a failed fetch of any page, homepage or contact page, makes
\* the site Unavailable with the matching class and is the last request.
\* Violated: a failed contact page is skipped (line 486) and the next one is
\* fetched; the site stays OK.
C9_AnyFailureEndsSite ==
    \A i \in 1..Len(log) :
        FailedFetch(i) =>
            /\ \A j \in (i + 1)..Len(log) : log[j].ev # "get"
            /\ ret.returned =>
                 /\ ret.website_status = "Unavailable"
                 /\ ret.scraping_result = ExpectedClass(log[i].result)

ContactGets == SelectSeq(log, LAMBDA e : e.ev = "get" /\ e.page = "contact")

\* C9 amended: a failed homepage fetch (the http fallback, or the only
\* request of an http:// URL) makes the site Unavailable with the matching
\* class and is the last request; a failed contact page changes nothing:
\* the site stays OK and the remaining contact pages are fetched.
C9_HomepageFailureEndsSite ==
    /\ \A i \in 1..Len(log) :
         (FailedFetch(i) /\ log[i].page = "home") =>
            /\ i = Len(log)
            /\ ret.returned
            /\ ret.website_status = "Unavailable"
            /\ ret.scraping_result = ExpectedClass(log[i].result)
            /\ ret.emails = {} /\ ret.phones = {}
    /\ (ret.returned /\ ContactGets # <<>>) =>
         /\ ret.website_status = "OK"
         /\ ret.scraping_result = "Success" <=> (all_emails # {} \/ all_phones # {})
         /\ (all_emails = {} \/ all_phones = {}) => Len(ContactGets) = Len(contact_pages)

\* a contact page failed, a later one was fetched, and the site is OK
C9_Witness ==
    /\ ret.returned
    /\ ret.website_status = "OK"
    /\ \E i, j \in 1..Len(ContactGets) :
         i < j /\ ContactGets[i].result \in Failures /\ ContactGets[j].result = "ok"

HomeGets == SelectSeq(log, LAMBDA e : e.ev = "get" /\ e.page = "home")

\* C10: a URL without scheme is requested with https first; the http
\* fallback is requested at most once, only after the https homepage request
\* failed; when the fallback fails the site gets the class of the fallback's
\* failure; an http:// URL is requested once.
C10_SchemeNegotiation ==
    /\ (url_in.scheme = "" /\ HomeGets # <<>>) => HomeGets[1].scheme = "https://"
    /\ Len(HomeGets) <= 2
    /\ Len(HomeGets) = 2 =>
         /\ HomeGets[1].scheme = "https://"
         /\ HomeGets[1].result \in Failures
         /\ HomeGets[2].scheme = "http://"
    /\ (Len(HomeGets) = 2 /\ HomeGets[2].result \in Failures) =>
         /\ ret.returned
         /\ ret.website_status = "Unavailable"
         /\ ret.scraping_result = ExpectedClass(HomeGets[2].result)
    /\ url_in.scheme = "http://" =>
         /\ Len(HomeGets) <= 1
         /\ \A i \in 1..Len(HomeGets) : HomeGets[i].scheme = "http://"

\* https timed out, the fallback failed to connect: Connection Failed
C10_Witness ==
    /\ url_in.scheme = ""
    /\ Len(HomeGets) = 2
    /\ HomeGets[1].result = "Timeout"
    /\ HomeGets[2].result = "ConnectionError"
    /\ ret.scraping_result = "Connection Failed"

\* the classes of a written row (spec 7; contact_scraper.py lines 489-509, 607)
RowClasses ==
    {"Success", "No Contacts Found", "Timeout", "Connection Failed",
     "Does Not Exist", "Error", "No URL"}

\* C14: failures never abort the batch.  A result file written by
\* process_chunks holds one classified row for every row of its chunk, the
\* rows after a failed site included; after an exception while processing a
\* chunk that chunk is not in completed_chunks, and the next selected chunk
\* of the run, if any, is processed.
\* Violated: when save_progress raises, line 268 has already put the chunk
\* in the list held in memory.
C14_FailuresNeverAbort ==
    /\ last.op \in {"written", "save_failed"} =>
          /\ Len(results[last.arg].rows) = Len(chunks[last.arg].rows)
          /\ \A i \in DOMAIN results[last.arg].rows :
                results[last.arg].rows[i].result \in RowClasses
    /\ last.op \in {"raised", "save_failed"} =>
          /\ last.arg \notin ToSet(progress.completed_chunks)
          /\ \A k \in 1..(Len(todo) - 1) :
                todo[k] = last.arg => pc = "processing" /\ idx = k + 1

\* C16: a row whose URL is empty or missing is written with Website_Status
\* Unavailable and Scraping_Result No URL, and no request is issued for it.
C16_EmptyUrlNoRequest ==
    (url_in.isna \/ (url_in.host = <<>> /\ \A i \in DOMAIN url_in.pad : url_in.pad[i] = " ")) =>
        /\ \A i \in DOMAIN log : log[i].ev # "get"
        /\ ret = NoReturn
        /\ s_pc = "written" =>
              /\ row.Website_Status = "Unavailable"
              /\ row.Scraping_Result = "No URL"
        /\ s_pc \in {"row", "written"}

\* a blank cell and a missing cell have been written
C16_Witness ==
    /\ s_pc = "written"
    /\ ~url_in.isna
    /\ url_in.host = <<>>
    /\ row.Scraping_Result = "No URL"

\* C18: every scrape_website session returns after a bounded number of
\* requests: one homepage request plus at most one fallback, then at most 3
\* contact-page requests one after the other, and the accumulated email and
\* phone sets only grow from page to page.
C18_BoundedSession ==
    /\ [](/\ Len(HomeGets) <= 2
          /\ Len(ContactGets) <= 3
          /\ Len(ContactGets) <= Len(contact_pages)
          /\ ret.returned => Len(HomeGets) >= 1
          /\ \A i, j \in DOMAIN log :
                (log[i].ev = "get" /\ log[j].ev = "get"
                 /\ log[i].page = "contact" /\ log[j].page = "home") => j < i)
    /\ [][all_emails \subseteq all_emails' /\ all_phones \subseteq all_phones']_vars
    /\ (s_pc = "get_home") ~> ret.returned

\* a session returned after two homepage requests and three contact pages
C18_Witness ==
    /\ ret.returned
    /\ Len(HomeGets) = 2
    /\ Len(ContactGets) = 3

\* the phones of the written record, without the protecting quote
RecordPhones ==
    {Tail(p) : p \in (IF row.Phone_Primary = <<>> THEN {} ELSE {row.Phone_Primary})
                      \cup row.Phone_Additional}

\* the countries the dialing codes of the record's phones give
PhoneCountries == {detect_country_from_phone(p) : p \in RecordPhones} \ {"UNK"}

\* the country of the TLD of the row's domain, "" if it has none
TldCountry == FirstMatch({i \in DOMAIN tld_map : EndsWithTld(url_in.host, tld_map[i].tld)})

\* C19: the country of a row is taken from a dialing-code match when any
\* phone of the record yields one; the TLD of the domain is consulted only
\* if no phone yields a match; if neither gives a country it is UNK.
\* Violated: detect_country_from_domain is given the cell as typed, and the
\* netloc of a URL without scheme is empty, so example.fr with no phone is
\* written with UNK.
C19_CountryFallbackOrder ==
    (ret.returned /\ s_pc \in {"written", "patched"}) =>
        IF PhoneCountries # {} THEN row.Country \in PhoneCountries
        ELSE IF TldCountry # "" THEN row.Country = TldCountry
        ELSE row.Country = "UNK"

\* the country the TLD of the fetched host gives, UNK if none
FetchedHostCountry ==
    LET c == detect_country_from_domain(normalize_url(url_in))
    IN IF c = "" THEN "UNK" ELSE c

\* C33: for a row whose URL is typed without a scheme and whose phones give
\* no dialing-code match, the Country written is that of the TLD of the host
\* that was fetched, as if the URL had been typed with https://
C33_FallbackUsesFetchedHost ==
    (/\ ret.returned
     /\ s_pc = "written"
     /\ ~is_empty_url(url_in)
     /\ url_in.scheme = ""
     /\ PhoneCountries = {}) =>
        row.Country = FetchedHostCountry

(***************************************************************************)
(* Properties of the phone normalisation (SpecPhone).                      *)
(***************************************************************************)
\* a + followed only by digits, at least one
IsCanonical(s) ==
    /\ Len(s) >= 2
    /\ s[1] = "+"
    /\ \A i \in 2..Len(s) : s[i] \in Digits

\* C20: normalize_phone_to_e164 is idempotent: a canonical string (+ and
\* digits only) is returned unchanged, and for every text with a valid
\* result, normalising the result gives the result again.
\* Violated: +0000004 (a + and 7 digits) is canonical and gives None, and
\* 0-00000004 gives 000000004, which gives None.
C20_NormalizeIdempotent ==
    /\ (ph_n >= 1 /\ IsCanonical(ph_x)) => ph_y[1] = ph_x
    /\ (ph_n = 2 /\ ph_y[1] # None) => ph_y[2] = ph_y[1]

\* the text is a 10-digit number that begins with 0 and carries no leading
\* + or 00 marker: separators and brackets apart, it reads 0 and 9 digits
IsLocal10(s) ==
    /\ Len(DigitsOnly(s)) = 10
    /\ Head(DigitsOnly(s)) = "0"
    /\ ~StartsWith(Strip(s), <<"+">>)
    /\ ~StartsWith(Strip(s), <<"0", "0">>)

\* C21: for a 10-digit number beginning with 0 without a leading + or 00
\* marker, normalize_phone_to_e164 returns those same 10 digits, never a
\* string with a + or a country code in front.
\* Violated: (0)444444444 loses its bracketed 0 at line 240 and is returned
\* as the 9 digits 444444444.
C21_LocalNumberUnchanged ==
    (ph_n >= 1 /\ IsLocal10(ph_x)) => ph_y[1] = DigitsOnly(ph_x)

\* the text began with 00 or with +, brackets around a 0 and blanks apart
HasMarker(s) ==
    \/ StartsWith(Strip(RemoveParenZero(s)), <<"+">>)
    \/ StartsWith(Strip(RemoveParenZero(s)), <<"0", "0">>)

\* the cleaned digits: the digits of the text without a bracketed 0 and
\* without the 00 marker
Cleaned(s) ==
    IF StartsWith(Strip(RemoveParenZero(s)), <<"0", "0">>)
    THEN DigitsOnly(From(Strip(RemoveParenZero(s)), 2))
    ELSE DigitsOnly(RemoveParenZero(s))

\* international intent: a marker, or 11 digits or more that begin with a
\* known dialing code
Intent(s) == HasMarker(s) \/ (Len(Cleaned(s)) >= 11 /\ HasKnownCode(Cleaned(s)))

\* C22: normalize_phone_to_e164 returns None exactly when the number of
\* cleaned digits is outside 9..15; otherwise it returns + and the digits
\* when international intent holds and there are at least 10 digits, and
\* the cleaned digits as they are in every other case, 9 digits with
\* international intent included.
\* Violated: + and 9 digits passes the length test and falls through to the
\* return None of line 299.
C22_ResultForm ==
    ph_n >= 1 =>
        ph_y[1] = IF Len(Cleaned(ph_x)) < 9 \/ Len(Cleaned(ph_x)) > 15 THEN None
                  ELSE IF Intent(ph_x) /\ Len(Cleaned(ph_x)) >= 10
                       THEN <<"+">> \o Cleaned(ph_x)
                       ELSE Cleaned(ph_x)

(***************************************************************************)
(* Properties of the deduplication (SpecDedup).                            *)
(***************************************************************************)
\* the normalised input: the valid results, in input order
NormalizedInput ==
    SelectSeq([i \in DOMAIN ph_x |-> normalize_phone_to_e164(ph_x[i])],
              LAMBDA p : p # None)

\* the last 9 digits of a phone, all its digits if it has fewer
Last9(p) ==
    SelectSeq([i \in DOMAIN p |-> IF i > Len(p) - 9 THEN p[i] ELSE "+"],
              LAMBDA c : c # "+")

\* C23: deduplicate_phones returns a subsequence of the normalised input in
\* which no two phones share their last 9 digits, every core of the input
\* is represented, and the phone kept for a core is the first one of the
\* input with that core.
C23_FirstPerCore ==
    ph_n = 1 =>
        /\ \E f \in [DOMAIN ph_y -> DOMAIN NormalizedInput] :
              /\ \A k \in DOMAIN ph_y : ph_y[k] = NormalizedInput[f[k]]
              /\ \A k, l \in DOMAIN ph_y : k < l => f[k] < f[l]
              /\ \A k \in DOMAIN ph_y : \A j \in 1..(f[k] - 1) :
                    Last9(NormalizedInput[j]) # Last9(ph_y[k])
        /\ \A k, l \in DOMAIN ph_y : k # l => Last9(ph_y[k]) # Last9(ph_y[l])
        /\ \A j \in DOMAIN NormalizedInput :
              \E k \in DOMAIN ph_y : Last9(ph_y[k]) = Last9(NormalizedInput[j])

\* two forms of one number collapsed and a second number was kept
C23_Witness ==
    /\ ph_n = 1
    /\ Len(ph_y) = 2
    /\ Len(NormalizedInput) = 3

(***************************************************************************)
(* Properties of the country of a phone (SpecCountry).                     *)
(***************************************************************************)
\* the lengths 1..7 at which the digits after the + begin with a key of the
\* dialing-code table
KeyLengths ==
    IF ph_x = <<>> \/ ph_x[1] # "+" THEN {}
    ELSE {n \in 1..7 : n <= Len(ph_x) - 1 /\ SubSeq(ph_x, 2, n + 1) \in DOMAIN COUNTRY_CODES}

\* C24: detect_country_from_phone returns, for a phone that begins with +,
\* the table value of the longest prefix of its digits (7 digits down to 1)
\* that is a key of the dialing-code table, and UNK when no prefix is a key
\* or the phone has no +; it always returns a value.
C24_LongestCodeWins ==
    ph_n = 1 =>
        /\ Len(ph_y) = 1
        /\ ph_y[1] = IF KeyLengths = {} THEN "UNK"
                      ELSE COUNTRY_CODES[SubSeq(ph_x, 2,
                               1 + CHOOSE n \in KeyLengths : \A m \in KeyLengths : m <= n)]

\* a phone whose digits begin with keys of two lengths got its country
C24_Witness ==
    /\ ph_n = 1
    /\ Cardinality(KeyLengths) >= 2
    /\ ph_y[1] # "UNK"

(***************************************************************************)
(* Properties of the phones of a page (SpecPhones).                        *)
(***************************************************************************)
\* the valid phones the tel, call, callto and phone links normalise to
NormalizableLinks ==
    {p \in {normalize_phone_to_e164(Strip(pg_soup[i].rest)) :
              i \in {k \in DOMAIN pg_soup :
                       pg_soup[k].scheme \in {"tel:", "call:", "callto:", "phone:"}}} :
        p # None}

\* C25: if at least one tel or call link of the page normalises to a valid
\* phone, extract_phones_from_html returns exactly the normalised link
\* phones and no phone of the text (a GPS pair of the text is never
\* reported); the text is scanned only when no link phone is normalisable.
C25_LinkPriority ==
    pg_n = 1 =>
        /\ NormalizableLinks # {} => pg_out.ret = NormalizableLinks
        /\ pg_out.scanned => NormalizableLinks = {}

\* a page with a normalisable tel link and a phone in its text
C25_Witness ==
    /\ pg_n = 1
    /\ NormalizableLinks # {}
    /\ \E i \in DOMAIN pg_text : pg_text[i].coords = 0 /\ ~pg_text[i].geo_word
    /\ \E i \in DOMAIN pg_text : pg_text[i].coords = 2

(***************************************************************************)
(* Properties of the emails of a page (SpecEmails).                        *)
(***************************************************************************)
Capitals == {"A", "B", "C", "D", "E", "F", "G", "H", "I", "J", "K", "L", "M", "N", "O", "P", "Q", "R", "S", "T", "U", "V", "W", "X", "Y", "Z"}
Smalls == <<"a", "b", "c", "d", "e", "f", "g", "h", "i", "j", "k", "l", "m", "n", "o", "p", "q", "r", "s", "t", "u", "v", "w", "x", "y", "z">>
CapitalsInOrder == <<"A", "B", "C", "D", "E", "F", "G", "H", "I", "J", "K", "L", "M", "N", "O", "P", "Q", "R", "S", "T", "U", "V", "W", "X", "Y", "Z">>

\* a and b are the same letter in any case, or the same character
SameChar(a, b) ==
    \/ a = b
    \/ \E k \in DOMAIN Smalls : {a, b} = {Smalls[k], CapitalsInOrder[k]}

SameIgnoringCase(a, b) ==
    /\ Len(a) = Len(b)
    /\ \A i \in DOMAIN a : SameChar(a[i], b[i])

\* the addresses of the page: the mail links up to their query that hold an
\* @ and a dot, and the addresses of the text, blanks removed
PageAddresses ==
    {a \in {SelectSeq(BeforeQuestionMark(pg_soup[i].rest), LAMBDA c : c # " ") :
              i \in {k \in DOMAIN pg_soup :
                       pg_soup[k].scheme \in {"mailto:", "goto:", "email:", "e-mail:", "mail:"}}} :
        "@" \in ToSet(a) /\ "." \in ToSet(a)}
    \cup {pg_text[i] : i \in DOMAIN pg_text}

\* C26: extract_emails_from_html returns the union of the addresses of the
\* links and of the text, deduplicated without regard to case: every
\* address returned is in lower case, no two addresses returned are equal
\* ignoring case, and each address of the page is returned once.
C26_EmailsLowerOnce ==
    pg_n = 1 =>
        /\ \A e \in pg_out.ret : \A i \in DOMAIN e : e[i] \notin Capitals
        /\ \A e, f \in pg_out.ret : SameIgnoringCase(e, f) => e = f
        /\ \A a \in PageAddresses : \E e \in pg_out.ret : SameIgnoringCase(a, e)
        /\ \A e \in pg_out.ret : \E a \in PageAddresses : SameIgnoringCase(a, e)

\* an address is in a mailto link and, in another case, in the text
C26_Witness ==
    /\ pg_n = 1
    /\ \E i \in DOMAIN pg_soup, j \in DOMAIN pg_text :
          /\ pg_soup[i].scheme = "mailto:"
          /\ SameIgnoringCase(BeforeQuestionMark(pg_soup[i].rest), pg_text[j])
          /\ BeforeQuestionMark(pg_soup[i].rest) # pg_text[j]
    /\ Cardinality(pg_out.ret) = 1

(***************************************************************************)
(* Properties of the contact links of a page (SpecLinks).                  *)
(***************************************************************************)
\* C27: find_contact_page_links returns at most 3 URLs, pairwise distinct,
\* each with the host of the page they were found on: no link to another
\* site is returned.
C27_ContactLinksOnSite ==
    (pg_n = 1 /\ ~pg_out.raised) =>
        /\ Len(pg_out.ret) <= 3
        /\ \A i, j \in DOMAIN pg_out.ret : i # j => pg_out.ret[i] # pg_out.ret[j]
        /\ \A i \in DOMAIN pg_out.ret : pg_out.ret[i].host = pg_base.host

\* three links were returned for a page with four links of the site, two of
\* them to the same URL, and none for its link to another site
C27_Witness ==
    /\ pg_n = 1
    /\ ~pg_out.raised
    /\ Len(pg_out.ret) = 3
    /\ \E i, j \in DOMAIN pg_soup :
          /\ pg_soup[i].kind = "path" /\ pg_soup[i].path = "contact"
          /\ pg_soup[j].kind = "url" /\ pg_soup[j].host = pg_base.host

\* every chunk of the progress record has a complete result file
AllVerified ==
    /\ progress.total_chunks > 0
    /\ \A c \in 1..progress.total_chunks : is_chunk_completed(results, c)

\* C28: when every chunk is verified complete, the merged file is the result
\* files concatenated in ascending chunk number: it holds each input row once,
\* in the order of the input, and has as many rows as the input
C28_MergeInInputOrder ==
    (last.op = "merged" /\ AllVerified) =>
        /\ final.rows = concat(results, [c \in 1..progress.total_chunks |-> c])
        /\ [i \in DOMAIN final.rows |-> final.rows[i].id]
             = [i \in DOMAIN input.rows |-> input.rows[i].id]
        /\ Len(final.rows) = Len(input.rows)

\* C29: process_chunks(N) selects at most N chunks, and none for N = 0 or a
\* negative N
C29_AtMostNSelected ==
    last.op = "select" =>
        Len(todo) <= (IF last.arg > 0 THEN last.arg ELSE 0)

\* C30: at the end of a retry pass over n failed sites each site was counted
\* once, as recovered or as still failed: recovered + still_failed = n
C30_EachSiteCountedOnce ==
    (pc = "merge" /\ last.op \in {"patched", "still_failed"}) =>
        counters.recovered + counters.still_failed = Len(retry_list)

\* the input rows a table of result rows was written for
InputOf(rows) == [i \in DOMAIN rows |-> [id |-> rows[i].id, url |-> rows[i].url]]

\* C31: a verified-complete result file has one row per row of the chunk file,
\* in the same order: it never holds a part of the results of its chunk
C31_OneResultRowPerInputRow ==
    \A c \in DOMAIN results :
        is_chunk_completed(results, c) =>
            /\ chunks[c].exists
            /\ InputOf(results[c].rows) = chunks[c].rows

\* every chunk has a verified-complete result file and is listed in the
\* completed_chunks of the progress file
AllDone ==
    \A c \in 1..pfile.data.total_chunks :
        /\ is_chunk_completed(results, c)
        /\ c \in ToSet(pfile.data.completed_chunks)

\* C32: asking again and again for N >= 1 chunks, with every chunk's result
\* file written, leads to all chunks verified complete and listed as
\* completed; from then on process_chunks processes nothing
C32_ResumptionCompletes == <>[](AllDone /\ pc # "processing")

\* all chunks are done and counted in the statistics, and process_chunks,
\* asked for more, selected nothing
C32_Witness ==
    /\ AllDone
    /\ last.op = "select"
    /\ last.arg >= 1
    /\ todo = <<>>
    /\ progress.stats.total_processed = MaxRows

\* Website_Status and Scraping_Result of one row agree
OutcomeConsistent(r) ==
    /\ r.status \in {"OK", "Unavailable"}
    /\ r.status = "OK" <=> r.result \in {"Success", "No Contacts Found"}
    /\ r.status = "Unavailable" <=>
         r.result \in {"Timeout", "Connection Failed", "Does Not Exist", "Error", "No URL"}

\* the sums the recomputed statistics satisfy
StatsConsistent(st) ==
    /\ st.websites_ok = st.success + st.no_contacts
    /\ st.websites_ok + st.websites_unavailable = st.total_processed

NoDuplicates(l) == \A i, j \in DOMAIN l : i # j => l[i] # l[j]

\* C17: completed_chunks is always a true set: the list load_progress
\* returned and the list after every chunk marked by process_chunks hold no
\* chunk number twice, also when the persisted list held duplicates.
C17_CompletedIsSet ==
    NoDuplicates(progress.completed_chunks)

\* load_progress has returned a non-empty list for a progress file that
\* holds a chunk number twice
C17_Witness ==
    /\ pc = "loop"
    /\ ~NoDuplicates(pfile.data.completed_chunks)
    /\ progress.completed_chunks # <<>>

(***************************************************************************)
(* Properties of the statistics (SpecStats).                               *)
(***************************************************************************)
\* the file can be read and holds every column the aggregation reads
Aggregates(f) ==
    /\ f.exists
    /\ f.ok
    /\ {"status", "result", "email", "phone"} \subseteq Columns(f.rows)

RECURSIVE SumOfAggregated(_, _)
\* the sum of the counters of the files 1..n that aggregate
SumOfAggregated(res, n) ==
    IF n = 0 THEN ZeroStats
    ELSE AddStats(SumOfAggregated(res, n - 1),
                  IF Aggregates(res[n]) THEN FileStats(res[n].rows) ELSE ZeroStats)

\* C15: calculate_stats_from_results skips an artifact that fails to read or
\* to aggregate: it contributes 0 to every counter, every other artifact is
\* aggregated, and the recomputation returns.
\* Violated: a readable file without the column Website_Status has its rows
\* added to total_processed (line 138) before df['Website_Status'] raises.
C15_SkippedFileCountsNothing ==
    st_pc = "returned" => st_stats = SumOfAggregated(st_results, MaxChunks)

(***************************************************************************)
(* Properties of the delays (SpecScrape).                                  *)
(***************************************************************************)
\* C11: between any two consecutive HTTP requests a rate-limiting delay
\* occurs: no request of the log directly follows another request.
\* Violated: the http fallback (lines 433-437) is requested right after the
\* failed https request, with no time.sleep between the two.
C11_DelayBetweenRequests ==
    \A i \in 1..(Len(log) - 1) :
        log[i].ev = "get" => log[i + 1].ev # "get"

(***************************************************************************)
(* Properties of the retry (SpecRetry).                                    *)
(***************************************************************************)
\* C12: the retry re-scrapes exactly the rows whose Scraping_Result is
\* Connection Failed; a successful retry changes only the output fields of
\* that row, every other row and the row count and order of the file are
\* unchanged; an unsuccessful retry leaves the file unchanged.
\* Violated: the patch writes back the whole file as pd.read_csv read it, and
\* the Country NA of another row was read as a missing value.
C12_RetryPatchesOneRow ==
    /\ rt_last.op = "scan" =>
          rt_list = ConnectionFailures(rt_file)
    /\ rt_last.op = "patched" =>
          /\ Len(rt_file) = Len(rt_last.before)
          /\ rt_file[rt_last.row].u = rt_last.before[rt_last.row].u
          /\ \A j \in DOMAIN rt_file : j # rt_last.row => rt_file[j] = rt_last.before[j]
    /\ rt_last.op = "kept" => rt_file = rt_last.before

\* C13: a row recovered by one retry pass is never selected or modified by a
\* later retry pass: it is not in the retry_list of a later pass and its
\* cells stay as the pass that recovered it wrote them.
\* Violated: a later pass that recovers another row of the file writes the
\* whole file back, and the Country NA of the recovered row becomes empty.
C13_RecoveredRowsStay ==
    \A r \in rt_recovered :
        r.pass < rt_pass =>
            /\ rt_file[r.row].cols = r.cols
            /\ \A k \in DOMAIN rt_list : rt_list[k] # r.row

=============================================================================
